---------------------------- MODULE Spec2Model ----------------------------
(***************************************************************************)
(* The fractal notebooks of shuiruge/maxent as state machines.             *)
(*                                                                         *)
(*   Biology    src/unnamed/part_000          "Fractal in Biology"         *)
(*   West       src/fractal/Fractal in Biology (West 1997).ipynb           *)
(*   WestDiag   src/unnamed/part_001          the West notebook with the   *)
(*              per-level printout cell and the override commented out     *)
(*   Logistics  src/fractal/Fractal in Logistics System.ipynb              *)
(*                                                                         *)
(* NUMBERS.  The notebooks compute with floats; the model computes exactly *)
(* on a grid.  np.exp is taken to the base 2 instead of e, that is, a      *)
(* model number n stands for the float n * ln 2 (np.log(2) is 1); every    *)
(* function of the notebooks is a log-sum-exp of linear forms and keeps    *)
(* its shape under this change of unit.  The components of a vector nu are *)
(* integers.  A logit is a multiple of 1/Den (Den = 3 where the exponents  *)
(* are 5/3, 2/3, 1/3 and Den = 2 where the exponent is 1/2) and is held    *)
(* times Den, as an integer j, so that exp(logit) = 2^(j/Den).  The float  *)
(* a log-sum-exp returns is held in the log domain as the finite set B of  *)
(* the positions of its sum of exponentials: B stands for the real r with  *)
(* 2^r = SUM of 2^(b/Den) over b in B, no position twice (two equal terms  *)
(* carry to the position Den higher).  2^(0/Den) .. 2^((Den-1)/Den) are    *)
(* linearly independent over the rationals, so two floats are equal        *)
(* exactly when their sets are.  An integer n is the set {Den * n}.        *)
(***************************************************************************)
EXTENDS Integers, Sequences, FiniteSets, TLC

(***************************************************************************)
(* Bounds of the model.                                                    *)
(***************************************************************************)
\* largest level count of a modelled run (the notebooks configure 5, 10, 4)
MaxLevels == 2
\* largest level count of a vector handed to the pure functions
MaxEvalLevels == 3
\* the components of such a vector range over -MaxNeg .. MaxNu
MaxNu == 2
MaxNeg == 1

Notebooks == {"Biology", "West", "WestDiag", "Logistics"}

IsWest(n) == n \in {"West", "WestDiag"}

\* the denominator of the exponents of notebook n: 5/3, 2/3 and 1/3, or 1/2
Den(n) == IF n = "Logistics" THEN 2 ELSE 3

(***************************************************************************)
(* numpy arrays: a shape and the elements in row-major order               *)
(***************************************************************************)
Max(S) == CHOOSE m \in S : \A y \in S : y <= m
Min(S) == CHOOSE m \in S : \A y \in S : m <= y

RECURSIVE SumSeq(_)
SumSeq(q) == IF q = <<>> THEN 0 ELSE Head(q) + SumSeq(Tail(q))

RECURSIVE Prod(_)
Prod(q) == IF q = <<>> THEN 1 ELSE Head(q) * Prod(Tail(q))

\* np.asarray of a Python list of numbers
asarray(list) == [shape |-> <<Len(list)>>, flat |-> list]

\* c * np.ones(shape)
ones(c, shape) == [shape |-> shape, flat |-> [i \in 1 .. Prod(shape) |-> c]]

\* np.sum(a): the sum of all elements, whatever the shape
np_sum(a) == SumSeq(a.flat)

\* a[k:] for a Python index k >= 0: along the first axis, empty once k
\* reaches its length
SliceFrom(a, k) ==
    LET n == a.shape[1]
        kk == IF k < n THEN k ELSE n
        row == Prod(Tail(a.shape))
    IN  [shape |-> <<n - kk>> \o Tail(a.shape),
         flat |-> SubSeq(a.flat, kk * row + 1, Len(a.flat))]

\* a[:k] for a Python index k >= 0: along the first axis, the whole of a once
\* k reaches its length
SliceTo(a, k) ==
    LET n == a.shape[1]
        kk == IF k < n THEN k ELSE n
        row == Prod(Tail(a.shape))
    IN  [shape |-> <<kk>> \o Tail(a.shape),
         flat |-> SubSeq(a.flat, 1, kk * row)]

(***************************************************************************)
(* Floats in the log domain                                                *)
(***************************************************************************)
\* the sum B + 2^(e/den), with the carry
RECURSIVE AddBit(_, _, _)
AddBit(B, e, den) ==
    IF e \in B THEN AddBit(B \ {e}, e + den, den) ELSE B \cup {e}

\* np.sum(np.exp(a)) of the scaled exponents a, from the left
RECURSIVE SumExp(_, _, _)
SumExp(B, a, den) ==
    IF a = <<>> THEN B ELSE SumExp(AddBit(B, Head(a), den), Tail(a), den)

\* the multiple j/Den, given as j, as a float
Real(j) == {j}

\* A < B as reals.  Where all positions are congruent modulo den the sums
\* are binary numerals and the highest position on which they differ
\* decides; the model compares no other pair (the CHOOSE has no value).
Less(A, B, den) ==
    IF \A a \in A \cup B : \A b \in A \cup B : (a - b) % den = 0
    THEN A # B /\ Max((A \ B) \cup (B \ A)) \in B
    ELSE CHOOSE undecided \in {} : TRUE
Leq(A, B, den) == A = B \/ Less(A, B, den)

\* r + ln(n) for the real r = j/Den: the sum of n copies of exp(r)
PlusLogN(j, n, den) == SumExp({}, [i \in 1 .. n |-> j], den)

(***************************************************************************)
(* scipy.special.logsumexp                                                 *)
(***************************************************************************)
\* a_max = amax(a); s = sum(exp(a - a_max)); return log(s) + a_max
logsumexp(a, den) ==
    LET a_max == Max({a[i] : i \in 1 .. Len(a)})
        tmp == [i \in 1 .. Len(a) |-> a[i] - a_max]
        s == SumExp({}, tmp, den)
    IN  {b + a_max : b \in s}

(***************************************************************************)
(* The objective and aggregate functions.  Each reads the level count from *)
(* the notebook's global (EXPERIMENT['levels'] or LEVELS), here the        *)
(* parameter levels.  The logits are held times Den.                       *)
(***************************************************************************)
\* a faulty variant: the head slice forgotten
logits_biology_tail_only(log_nu, levels) ==
    [j \in 1 .. levels + 1 |-> (0 - 5) * np_sum(SliceFrom(log_nu, j - 1))]

\* a faulty variant: the two slices exchanged
logits_biology_swapped(log_nu, levels) ==
    [j \in 1 .. levels + 1 |->
        (0 - 5) * np_sum(SliceTo(log_nu, j - 1))
            - 3 * np_sum(SliceFrom(log_nu, j - 1))]

\* Biology: -(5/3) * np.sum(log_nu[k:]) - np.sum(log_nu[:k]), k in range(levels+1)
logits_biology(log_nu, levels) ==
    [j \in 1 .. levels + 1 |->
        (0 - 5) * np_sum(SliceFrom(log_nu, j - 1))
            - 3 * np_sum(SliceTo(log_nu, j - 1))]

\* a faulty variant: the sign of the exponent lost
logits_west_unsigned(log_nu, levels) ==
    [j \in 1 .. levels + 1 |-> 2 * np_sum(SliceFrom(log_nu, j - 1))]

\* West: -(2/3) * np.sum(log_nu[k:]), k in range(LEVELS+1)
logits_west(log_nu, levels) ==
    [j \in 1 .. levels + 1 |-> (0 - 2) * np_sum(SliceFrom(log_nu, j - 1))]

\* a faulty variant: the volume summed over the head slices log_nu[:k]
volume_logits_west_heads(log_nu, levels) ==
    [j \in 1 .. levels + 1 |-> np_sum(SliceTo(log_nu, j - 1))]

\* West, get_log_volume: (1/3) * np.sum(log_nu[k:]), k in range(LEVELS+1)
volume_logits_west(log_nu, levels) ==
    [j \in 1 .. levels + 1 |-> np_sum(SliceFrom(log_nu, j - 1))]

\* a faulty variant: the head slices log_nu[:k] summed
logits_logistics_heads(log_nu, levels) ==
    [j \in 1 .. levels + 1 |-> np_sum(SliceTo(log_nu, j - 1))]

\* Logistics: (1/2) * np.sum(log_nu[k:]), k in range(LEVELS+1)
logits_logistics(log_nu, levels) ==
    [j \in 1 .. levels + 1 |-> np_sum(SliceFrom(log_nu, j - 1))]

\* West's Conclusion: the objective with the sign of the exponent flipped,
\* ln sum_k prod_{i=k}^{C-1} nu_i^(+2/3)
logits_flipped(log_nu, levels) ==
    [j \in 1 .. levels + 1 |-> 2 * np_sum(SliceFrom(log_nu, j - 1))]

\* the logits of the objective of notebook n
objective_logits(n, log_nu, levels) ==
    CASE n = "Biology" -> logits_biology(log_nu, levels)
      [] IsWest(n) -> logits_west(log_nu, levels)
      [] n = "Logistics" -> logits_logistics(log_nu, levels)

\* a faulty variant: return np.sum(logits)
objective_summed(n, log_nu, levels) ==
    Real(SumSeq(objective_logits(n, log_nu, levels)))

\* get_log_resistance (Biology, West), get_log_consumption (Logistics)
objective(n, log_nu, levels) ==
    logsumexp(objective_logits(n, log_nu, levels), Den(n))

\* the arguments logsumexp hands to exp: a - a_max
logsumexp_exponents(a) ==
    LET a_max == Max({a[i] : i \in 1 .. Len(a)})
    IN  [i \in 1 .. Len(a) |-> a[i] - a_max]

\* a faulty variant: np.log(np.sum(np.exp(logits)))
objective_exponents_direct(n, log_nu, levels) ==
    objective_logits(n, log_nu, levels)

\* what the objective exponentiates: return logsumexp(logits)
objective_exponents(n, log_nu, levels) ==
    logsumexp_exponents(objective_logits(n, log_nu, levels))

\* what the aggregate exponentiates: nothing where it is np.sum
aggregate_exponents(n, log_nu, levels) ==
    IF IsWest(n)
    THEN logsumexp_exponents(volume_logits_west(log_nu, levels))
    ELSE <<>>

\* a faulty variant: the aggregate returns the mean of the components
aggregate_mean(n, log_nu, levels) ==
    IF IsWest(n)
    THEN logsumexp(volume_logits_west(log_nu, levels), Den(n))
    ELSE Real(Den(n) * (np_sum(log_nu) \div Len(log_nu.flat)))

\* get_log_volume (Biology: np.sum; West: a log-sum-exp), get_log_population
aggregate(n, log_nu, levels) ==
    IF IsWest(n)
    THEN logsumexp(volume_logits_west(log_nu, levels), Den(n))
    ELSE Real(Den(n) * np_sum(log_nu))

\* the flipped objective of West's Conclusion
get_log_resistance_flipped(log_nu, levels) ==
    logsumexp(logits_flipped(log_nu, levels), Den("West"))

(***************************************************************************)
(* The hyperparameters of the notebooks, and their stand-ins.  A modelled  *)
(* run draws its level count from 1 .. MaxLevels and keeps the notebook's  *)
(* target per level, so that the notebook's relations among its constants *)
(* (the start drawn from [3, 5], the cap 6, the filled vectors 6 * ones    *)
(* and 25 * ones that meet the target) are those of the run.               *)
(***************************************************************************)
Biology_levels == 5
Biology_true_log_volume == 30
West_LEVELS == 10
West_TRUE_LOG_VOLUME == 50
WestDiag_TRUE_LOG_VOLUME == 30
Logistics_LEVELS == 4
Logistics_TRUE_LOG_POPULATION == 100
\* np.random.uniform(3., 5.)
UniformLow == 3
UniformHigh == 5
\* the last pair of Biology's bounds, (0., 6.)
UpperBound == 6
\* Biology's x = 6 * np.ones(...), Logistics' 25 * np.ones(...)
Biology_x_fill == 6
Logistics_override_fill == 25

TargetPerLevel(n) ==
    CASE n = "Biology" -> Biology_true_log_volume \div Biology_levels
      [] n = "West" -> West_TRUE_LOG_VOLUME \div West_LEVELS
      [] n = "WestDiag" -> WestDiag_TRUE_LOG_VOLUME \div West_LEVELS
      [] n = "Logistics" -> Logistics_TRUE_LOG_POPULATION \div Logistics_LEVELS

\* The step of the grid on which the solver's answers lie.  In West the
\* volume is a log-sum-exp of thirds of suffix sums, and a component near
\* Den times the target carries the whole volume (the notebook's 143.09
\* for the target 50).
XStep(n) == IF IsWest(n) THEN Den(n) * TargetPerLevel(n) ELSE TargetPerLevel(n)

\* test_log_nu = [0., ..., 0., last]
single_branch(last, levels) ==
    [i \in 1 .. levels |-> IF i = levels THEN last ELSE 0]

\* West: [0., ..., 0., 143.0922448], whose volume is the target 50;
\* WestDiag: [0., ..., 0., 85.], whose volume 30.64 exceeds the target 30
test_log_nu_of(n, levels) ==
    IF n = "West"
    THEN single_branch(XStep(n) * levels, levels)
    ELSE single_branch(XStep(n) * levels + Den(n), levels)

\* EXPERIMENT['true_log_volume'] = 3e+1, TRUE_LOG_VOLUME = 5e+1 (3e+1),
\* TRUE_LOG_POPULATION = 1e+2, for a run of the given level count.  West's
\* stand-in is the volume of the single-branch vector on the grid.
target_of(n, levels) ==
    IF IsWest(n)
    THEN aggregate(n, asarray(single_branch(XStep(n) * levels, levels)), levels)
    ELSE Real(Den(n) * TargetPerLevel(n) * levels)

(***************************************************************************)
(* Bounds and constraints handed to the optimizer                          *)
(***************************************************************************)
\* a faulty variant: no bound on any component
bounds_of_unbounded(n, levels) ==
    [i \in 1 .. levels |-> [lo |-> <<>>, hi |-> <<>>]]

\* a faulty variant: the cap 6 on every component, in every notebook
bounds_of_all_capped(n, levels) ==
    [i \in 1 .. levels |-> [lo |-> <<0>>, hi |-> <<UpperBound>>]]

\* None is <<>>, a number c is <<c>>
\* Biology: [(0., None) for _ in range(levels-1)] + [(0., 6.)]
\* the others: [(0., None) for _ in range(LEVELS)]
bounds_of(n, levels) ==
    IF n = "Biology"
    THEN [i \in 1 .. levels - 1 |-> [lo |-> <<0>>, hi |-> <<>>]]
             \o <<[lo |-> <<0>>, hi |-> <<UpperBound>>]>>
    ELSE [i \in 1 .. levels |-> [lo |-> <<0>>, hi |-> <<>>]]

\* a faulty variant: the lambda calls the objective instead of the aggregate
constraint_fun_of_objective(n, log_nu, levels, tgt) ==
    [minuend |-> objective(n, log_nu, levels), subtrahend |-> tgt]

\* lambda log_nu: get_log_volume(log_nu) - target; the difference of two
\* floats is held as the pair, and is zero exactly when they are equal
constraint_fun(n, log_nu, levels, tgt) ==
    [minuend |-> aggregate(n, log_nu, levels), subtrahend |-> tgt]

\* a faulty variant: the constraint declared as an inequality
constraints_of_ineq(n) ==
    <<[type |-> "ineq", fun |-> "aggregate_minus_target"]>>

\* constraints = [{'type': 'eq', 'fun': lambda ...}]
constraints_of(n) == <<[type |-> "eq", fun |-> "aggregate_minus_target"]>>

\* a faulty variant: np.random.uniform(3., 8.)
initial_values_of_wide(levels) ==
    [1 .. levels -> UniformLow .. UniformHigh + 3]

\* a faulty variant: np.random.uniform(-5., 5.)
initial_values_of_signed(levels) ==
    [1 .. levels -> (0 - UniformHigh) .. UniformHigh]

\* [np.random.uniform(3., 5.) for _ in range(levels)]: every draw
initial_values_of(levels) == [1 .. levels -> UniformLow .. UniformHigh]

(***************************************************************************)
(* scipy.optimize.minimize (SLSQP): the external solver, by its contract.  *)
(* It answers with a point inside the bounds it was given; when it reports *)
(* success the point also meets the constraints it was given.  The points  *)
(* lie on the grid XStep * (-1 .. levels), or are the start itself.        *)
(***************************************************************************)
XVectors(n, levels) ==
    [1 .. levels -> {XStep(n) * a : a \in (0 - 1) .. levels}]

InBounds(xv, bnds) ==
    /\ Len(xv) = Len(bnds)
    /\ \A i \in 1 .. Len(xv) :
        /\ bnds[i].lo = <<>> \/ bnds[i].lo[1] <= xv[i]
        /\ bnds[i].hi = <<>> \/ xv[i] <= bnds[i].hi[1]

Satisfies(n, xv, cons, levels, tgt) ==
    \A i \in 1 .. Len(cons) :
        LET d == constraint_fun(n, asarray(xv), levels, tgt)
        IN  IF cons[i].type = "eq"
            THEN d.minuend = d.subtrahend
            ELSE Leq(d.subtrahend, d.minuend, Den(n))

OptimizeResult(n, ok, xv, levels) ==
    [success |-> ok,
     status |-> IF ok THEN 0 ELSE 9,
     message |-> IF ok THEN "Optimization terminated successfully"
                       ELSE "Iteration limit reached",
     x |-> xv,
     fun |-> objective(n, asarray(xv), levels)]

minimize(n, x0, bnds, cons, levels, tgt) ==
    {OptimizeResult(n, TRUE, xv, levels) :
        xv \in {v \in XVectors(n, levels) :
                  InBounds(v, bnds) /\ Satisfies(n, v, cons, levels, tgt)}}
    \cup
    {OptimizeResult(n, FALSE, xv, levels) :
        xv \in {v \in XVectors(n, levels) \cup {x0} : InBounds(v, bnds)}}

(***************************************************************************)
(* The per-level printouts of the diagnostic cells: np.exp of each logit,  *)
(* written out again in the cell.  A printed float exp(j/Den) is held as j.*)
(***************************************************************************)
\* a faulty variant: the exponent of the West notebook, -(2/3), and no
\* prefix term
contributions_biology_as_west(xa, levels) ==
    [j \in 1 .. levels + 1 |-> (0 - 2) * np_sum(SliceFrom(xa, j - 1))]

\* Biology: np.exp(-(5/3) * np.sum(x[k:]) - np.sum(x[:k]))
contributions_biology(xa, levels) ==
    [j \in 1 .. levels + 1 |->
        (0 - 5) * np_sum(SliceFrom(xa, j - 1)) - 3 * np_sum(SliceTo(xa, j - 1))]

\* WestDiag: np.exp(-(2/3) * np.sum(x[k:])), np.exp((1/3) * np.sum(x[k:]))
contributions_west(xa, levels) ==
    [j \in 1 .. levels + 1 |->
        <<(0 - 2) * np_sum(SliceFrom(xa, j - 1)), np_sum(SliceFrom(xa, j - 1))>>]

\* Logistics: np.exp((1/2) * np.sum(optimized_log_nu[k:]))
contributions_logistics(xa, levels) ==
    [j \in 1 .. levels + 1 |-> np_sum(SliceFrom(xa, j - 1))]

(***************************************************************************)
(* A run: the code cells of a notebook, executed from top to bottom        *)
(***************************************************************************)
\* a faulty variant: the optimizer's cell run again after the check
Cells_rerun(n) ==
    IF n = "Logistics"
    THEN <<"imports", "levels", "objective_sample", "aggregate_sample",
           "least", "target", "minimize", "take_x_override", "check",
           "minimize", "contributions", "plot">>
    ELSE IF n = "Biology"
    THEN <<"imports", "levels", "objective_sample", "aggregate_sample",
           "least", "target", "minimize", "take_x", "check", "minimize",
           "plot", "review", "pick_x", "contributions">>
    ELSE <<"imports", "levels", "objective_sample", "aggregate_sample",
           "least", "target", "minimize", "take_x", "check", "minimize",
           "test_extreme", "override", "plot", "log_nc">>

Cells(n) ==
    CASE n = "Biology" ->
           <<"imports", "levels", "objective_sample", "aggregate_sample",
             "least", "target", "minimize", "take_x", "check", "plot",
             "review", "pick_x", "contributions">>
      [] n = "West" ->
           <<"imports", "levels", "objective_sample", "aggregate_sample",
             "least", "target", "minimize", "take_x", "check",
             "test_extreme", "override", "plot", "log_nc">>
      [] n = "WestDiag" ->
           <<"imports", "levels", "objective_sample", "aggregate_sample",
             "least", "target", "minimize", "take_x", "check",
             "test_extreme", "no_override", "plot", "log_nc",
             "contributions">>
      [] n = "Logistics" ->
           <<"imports", "levels", "objective_sample", "aggregate_sample",
             "least", "target", "minimize", "take_x_override", "check",
             "contributions", "plot">>

\* the names a cell reads from the kernel, and those it binds
Reads(n, kind) ==
    CASE kind = "imports" -> {}
      [] kind = "levels" -> {}
      [] kind = "objective_sample" -> {"np", "logsumexp", "levels"}
      [] kind = "aggregate_sample" ->
           IF IsWest(n) THEN {"np", "logsumexp", "levels", "log_nu"}
                        ELSE {"np", "log_nu"}
      [] kind = "least" -> {"np", "levels", "aggregate"}
      [] kind = "target" -> IF n = "Biology" THEN {"levels"} ELSE {}
      [] kind = "minimize" ->
           {"np", "minimize", "levels", "target", "objective", "aggregate"}
      [] kind \in {"take_x", "take_x_override"} ->
           IF n = "Logistics" THEN {"result", "np", "levels"} ELSE {"result"}
      [] kind = "check" -> {"objective", "aggregate", "optimized_log_nu"}
      [] kind = "plot" -> {"plt", "optimized_log_nu"}
      [] kind = "review" -> {"levels", "target"}
      [] kind = "pick_x" -> {"np", "levels", "objective", "aggregate"}
      [] kind = "contributions" ->
           IF n = "Biology" THEN {"np", "levels", "x"}
                            ELSE {"np", "levels", "optimized_log_nu"}
      [] kind = "test_extreme" -> {"objective", "aggregate"}
      [] kind = "override" -> {"test_log_nu"}
      [] kind = "no_override" -> {}
      [] kind = "log_nc" -> {"np", "optimized_log_nu"}

Writes(n, kind) ==
    CASE kind = "imports" -> {"np", "minimize", "logsumexp", "plt"}
      [] kind = "levels" -> {"levels"}
      [] kind = "objective_sample" -> {"objective", "log_nu"}
      [] kind = "aggregate_sample" -> {"aggregate"}
      [] kind = "least" -> {"least"}
      [] kind = "target" -> {"target"}
      [] kind = "minimize" ->
           {"initial_values", "bounds", "constraints", "result"}
      [] kind \in {"take_x", "take_x_override", "override"} ->
           {"optimized_log_nu"}
      [] kind = "pick_x" -> {"x"}
      [] kind = "contributions" -> IF n = "WestDiag" THEN {"x"} ELSE {}
      [] kind = "test_extreme" -> {"test_log_nu"}
      [] kind = "log_nc" -> {"get_log_nc"}
      [] OTHER -> {}

VARIABLES
    nb,                 \* the notebook that is run
    pc,                 \* the index of the next code cell; 0 outside a run
    defined,            \* the names bound in the kernel so far
    levels,             \* EXPERIMENT['levels'], LEVELS
    target,             \* EXPERIMENT['true_log_volume'], TRUE_LOG_VOLUME, ...
    log_nu,             \* the sample array of the objective's cell
    least,              \* least_log_volume, least_log_population
    initial_values,
    bounds,
    constraints,
    result,             \* <<>> before minimize returns, <<OptimizeResult>> after
    optimized_log_nu,
    test_log_nu,
    x,
    out,                \* what the cells have displayed, in order
    calls,              \* how many times minimize has been called
    arg,                \* the argument handed to the functions outside a run
    ev,                 \* what they returned
    \* texts/word2vec.ipynb
    vocab_size,         \* VOCAB_SIZE
    text8,              \* the corpus, a list of words
    vocab,              \* word -> id
    id_to_word,         \* id -> word
    targets,
    contexts,
    pair_at,            \* for each pair, the corpus positions its words were
                        \* read from (0-based), <<target, context>>
    target_ids,
    context_ids,
    W,                  \* model.W, one row per id
    step,               \* the tf.Variable of get_train_step
    events,             \* the operations of the last train_step call, in order
    train_calls,        \* how many times train_step has been called
    loss_value          \* <<>>, or <<the loss returned last>>

word2vec_vars == <<vocab_size, text8, vocab, id_to_word, targets, contexts,
                   pair_at, target_ids, context_ids, W, step, events,
                   train_calls, loss_value>>

fractal_vars == <<levels, target, log_nu, least, initial_values, bounds,
                  constraints, result, optimized_log_nu, test_log_nu, x,
                  calls, arg, ev>>

vars == <<nb, pc, defined, levels, target, log_nu, least, initial_values,
          bounds, constraints, result, optimized_log_nu, test_log_nu, x, out,
          calls, arg, ev, word2vec_vars>>

\* nothing evaluated yet
NoEv == [logits |-> <<>>, value |-> {}, agg_logits |-> <<>>, agg |-> {},
         flipped_logits |-> <<>>, flipped_value |-> {}, flipped_feasible |-> {},
         flipped_optimum |-> {}, contributions |-> <<>>,
         exponentiated |-> <<>>]

\* a fresh kernel
FreshKernel ==
    /\ defined = {}
    /\ levels = 0
    /\ target = {}
    /\ log_nu = asarray(<<>>)
    /\ least = {}
    /\ initial_values = <<>>
    /\ bounds = <<>>
    /\ constraints = <<>>
    /\ result = <<>>
    /\ optimized_log_nu = <<>>
    /\ test_log_nu = <<>>
    /\ x = <<>>
    /\ out = <<>>
    /\ calls = 0

\* nothing of word2vec.ipynb bound
FreshWord2Vec ==
    /\ vocab_size = 0
    /\ text8 = <<>>
    /\ vocab = <<>>
    /\ id_to_word = <<>>
    /\ targets = <<>>
    /\ contexts = <<>>
    /\ pair_at = <<>>
    /\ target_ids = <<>>
    /\ context_ids = <<>>
    /\ W = <<>>
    /\ step = 0
    /\ events = <<>>
    /\ train_calls = 0
    /\ loss_value = <<>>

Init ==
    /\ nb \in Notebooks
    /\ pc = 1
    /\ FreshKernel
    /\ FreshWord2Vec
    /\ arg = <<>>
    /\ ev = NoEv

\* the cell at pc is of this kind and finds the names it reads
Step(kind) ==
    /\ pc \in 1 .. Len(Cells(nb))
    /\ Cells(nb)[pc] = kind
    /\ Reads(nb, kind) \subseteq defined
    /\ pc' = pc + 1
    /\ defined' = defined \cup Writes(nb, kind)

\* the cell displays value, which it computed from the vector of
Show(kind, of, value) ==
    out' = Append(out, [cell |-> kind, of |-> of, value |-> value])

\* import numpy as np; from scipy.optimize import minimize; ...
Imports ==
    /\ Step("imports")
    /\ UNCHANGED <<word2vec_vars, nb, levels, target, log_nu, least, initial_values, bounds,
                   constraints, result, optimized_log_nu, test_log_nu, x, out,
                   calls, arg, ev>>

\* EXPERIMENT = {'levels': 5}; LEVELS = 10; LEVELS = 4
SetLevels ==
    /\ Step("levels")
    /\ \E c \in 1 .. MaxLevels : levels' = c
    /\ UNCHANGED <<word2vec_vars, nb, target, log_nu, least, initial_values, bounds,
                   constraints, result, optimized_log_nu, test_log_nu, x, out,
                   calls, arg, ev>>

\* def get_log_resistance / get_log_consumption; log_nu = np.log(2) *
\* np.ones([levels]) (Logistics: np.ones([1, LEVELS])); the value at log_nu
ObjectiveSample ==
    /\ Step("objective_sample")
    /\ log_nu' = IF nb = "Logistics" THEN ones(1, <<1, levels>>)
                                     ELSE ones(1, <<levels>>)
    /\ Show("objective_sample", log_nu'.flat,
            objective(nb, log_nu', levels))
    /\ UNCHANGED <<word2vec_vars, nb, levels, target, least, initial_values, bounds,
                   constraints, result, optimized_log_nu, test_log_nu, x,
                   calls, arg, ev>>

\* def get_log_volume / get_log_population; the value at log_nu
AggregateSample ==
    /\ Step("aggregate_sample")
    /\ Show("aggregate_sample", log_nu.flat, aggregate(nb, log_nu, levels))
    /\ UNCHANGED <<word2vec_vars, nb, levels, target, log_nu, least, initial_values, bounds,
                   constraints, result, optimized_log_nu, test_log_nu, x,
                   calls, arg, ev>>

\* least_log_volume = get_log_volume(np.log(2) * np.ones([levels]))
Least ==
    /\ Step("least")
    /\ least' = aggregate(nb, ones(1, <<levels>>), levels)
    /\ Show("least", ones(1, <<levels>>).flat, least')
    /\ UNCHANGED <<word2vec_vars, nb, levels, target, log_nu, initial_values, bounds,
                   constraints, result, optimized_log_nu, test_log_nu, x,
                   calls, arg, ev>>

\* a faulty variant: EXPERIMENT = {'true_log_volume': 3e+1}, a new mapping
\* without the level count (read as 0 from then on)
SetTarget_rebinds ==
    /\ Step("target")
    /\ target' = target_of(nb, levels)
    /\ levels' = IF nb = "Biology" THEN 0 ELSE levels
    /\ UNCHANGED <<word2vec_vars, nb, log_nu, least, initial_values, bounds,
                   constraints, result, optimized_log_nu, test_log_nu, x, out,
                   calls, arg, ev>>

\* EXPERIMENT['true_log_volume'] = 3e+1; TRUE_LOG_VOLUME = 5e+1; ...
SetTarget ==
    /\ Step("target")
    /\ target' = target_of(nb, levels)
    /\ UNCHANGED <<word2vec_vars, nb, levels, log_nu, least, initial_values, bounds,
                   constraints, result, optimized_log_nu, test_log_nu, x, out,
                   calls, arg, ev>>

\* a faulty variant: a failed call is repeated once from a new start
Minimize_retry ==
    /\ Step("minimize")
    /\ bounds' = bounds_of(nb, levels)
    /\ constraints' = constraints_of(nb)
    /\ \E x0 \in initial_values_of(levels) :
        \E r \in minimize(nb, x0, bounds', constraints', levels, target) :
            IF r.success
            THEN /\ initial_values' = x0
                 /\ result' = <<r>>
                 /\ calls' = calls + 1
                 /\ Show("minimize", x0, r)
            ELSE \E x1 \in initial_values_of(levels) :
                 \E r1 \in minimize(nb, x1, bounds', constraints', levels, target) :
                    /\ initial_values' = x1
                    /\ result' = <<r1>>
                    /\ calls' = calls + 2
                    /\ Show("minimize", x1, r1)
    /\ UNCHANGED <<word2vec_vars, nb, levels, target, log_nu, least, optimized_log_nu,
                   test_log_nu, x, arg, ev>>

\* initial_values = ...; bounds = ...; constraints = ...;
\* result = minimize(objective, initial_values, bounds=..., constraints=...);
\* result
Minimize ==
    /\ Step("minimize")
    /\ \E x0 \in initial_values_of(levels) :
        /\ initial_values' = x0
        /\ bounds' = bounds_of(nb, levels)
        /\ constraints' = constraints_of(nb)
        /\ \E r \in minimize(nb, x0, bounds', constraints', levels, target) :
            /\ result' = <<r>>
            /\ Show("minimize", x0, r)
    /\ calls' = calls + 1
    /\ UNCHANGED <<word2vec_vars, nb, levels, target, log_nu, least, optimized_log_nu,
                   test_log_nu, x, arg, ev>>

\* optimized_log_nu = result.x (Biology displays it)
TakeX ==
    /\ Step("take_x")
    /\ optimized_log_nu' = result[1].x
    /\ IF nb = "Biology" THEN Show("take_x", optimized_log_nu', optimized_log_nu')
                         ELSE UNCHANGED out
    /\ UNCHANGED <<word2vec_vars, nb, levels, target, log_nu, least, initial_values, bounds,
                   constraints, result, test_log_nu, x, calls, arg, ev>>

\* Logistics: optimized_log_nu = result.x
\*            optimized_log_nu = 25 * np.ones([LEVELS])
TakeXOverride ==
    /\ Step("take_x_override")
    /\ optimized_log_nu' = ones(Logistics_override_fill, <<levels>>).flat
    /\ UNCHANGED <<word2vec_vars, nb, levels, target, log_nu, least, initial_values, bounds,
                   constraints, result, test_log_nu, x, out, calls, arg, ev>>

\* a faulty variant: the objective's value taken from the optimizer's
\* result, result.fun, instead of evaluated at optimized_log_nu
Check_cached ==
    /\ Step("check")
    /\ Show("check", optimized_log_nu,
            <<result[1].fun,
              aggregate(nb, asarray(optimized_log_nu), levels)>>)
    /\ UNCHANGED <<word2vec_vars, nb, levels, target, log_nu, least, initial_values, bounds,
                   constraints, result, optimized_log_nu, test_log_nu, x,
                   calls, arg, ev>>

\* get_log_resistance(optimized_log_nu), get_log_volume(optimized_log_nu)
Check ==
    /\ Step("check")
    /\ Show("check", optimized_log_nu,
            <<objective(nb, asarray(optimized_log_nu), levels),
              aggregate(nb, asarray(optimized_log_nu), levels)>>)
    /\ UNCHANGED <<word2vec_vars, nb, levels, target, log_nu, least, initial_values, bounds,
                   constraints, result, optimized_log_nu, test_log_nu, x,
                   calls, arg, ev>>

\* test_log_nu = [0., ..., 0., 143.0922448]  # the true extreme.
\* get_log_resistance(test_log_nu), get_log_volume(test_log_nu)
TestExtreme ==
    /\ Step("test_extreme")
    /\ test_log_nu' = test_log_nu_of(nb, levels)
    /\ Show("test_extreme", test_log_nu',
            <<objective(nb, asarray(test_log_nu'), levels),
              aggregate(nb, asarray(test_log_nu'), levels)>>)
    /\ UNCHANGED <<word2vec_vars, nb, levels, target, log_nu, least, initial_values, bounds,
                   constraints, result, optimized_log_nu, x, calls, arg, ev>>

\* West: optimized_log_nu = test_log_nu
Override ==
    /\ Step("override")
    /\ optimized_log_nu' = test_log_nu
    /\ UNCHANGED <<word2vec_vars, nb, levels, target, log_nu, least, initial_values, bounds,
                   constraints, result, test_log_nu, x, out, calls, arg, ev>>

\* WestDiag: # optimized_log_nu = test_log_nu
NoOverride ==
    /\ Step("no_override")
    /\ UNCHANGED <<word2vec_vars, nb, levels, target, log_nu, least, initial_values, bounds,
                   constraints, result, optimized_log_nu, test_log_nu, x, out,
                   calls, arg, ev>>

\* plt.plot(optimized_log_nu, '.', ...)
Plot ==
    /\ Step("plot")
    /\ Show("plot", optimized_log_nu, optimized_log_nu)
    /\ UNCHANGED <<word2vec_vars, nb, levels, target, log_nu, least, initial_values, bounds,
                   constraints, result, optimized_log_nu, test_log_nu, x,
                   calls, arg, ev>>

\* Biology: EXPERIMENT
Review ==
    /\ Step("review")
    /\ Show("review", <<>>, [levels |-> levels, true_log_volume |-> target])
    /\ UNCHANGED <<word2vec_vars, nb, levels, target, log_nu, least, initial_values, bounds,
                   constraints, result, optimized_log_nu, test_log_nu, x,
                   calls, arg, ev>>

\* Biology: x = 6 * np.ones([EXPERIMENT['levels']])
\*          get_log_resistance(x), get_log_volume(x), x
PickX ==
    /\ Step("pick_x")
    /\ x' = ones(Biology_x_fill, <<levels>>).flat
    /\ Show("pick_x", x',
            <<objective(nb, asarray(x'), levels),
              aggregate(nb, asarray(x'), levels), x'>>)
    /\ UNCHANGED <<word2vec_vars, nb, levels, target, log_nu, least, initial_values, bounds,
                   constraints, result, optimized_log_nu, test_log_nu, calls,
                   arg, ev>>

\* for k in range(levels+1): print(f'k = {k}:', np.exp(...))
\* Biology prints for x, Logistics for optimized_log_nu, WestDiag for
\* x = optimized_log_nu
Contributions ==
    /\ Step("contributions")
    /\ x' = IF nb = "WestDiag" THEN optimized_log_nu ELSE x
    /\ Show("contributions",
            IF nb = "Logistics" THEN optimized_log_nu ELSE x',
            CASE nb = "Biology" -> contributions_biology(asarray(x'), levels)
              [] nb = "WestDiag" -> contributions_west(asarray(x'), levels)
              [] nb = "Logistics" ->
                   contributions_logistics(asarray(optimized_log_nu), levels))
    /\ UNCHANGED <<word2vec_vars, nb, levels, target, log_nu, least, initial_values, bounds,
                   constraints, result, optimized_log_nu, test_log_nu, calls,
                   arg, ev>>

\* West: def get_log_nc(log_nu): return np.sum(log_nu)
\*       get_log_nc(optimized_log_nu)
LogNc ==
    /\ Step("log_nc")
    /\ Show("log_nc", optimized_log_nu, np_sum(asarray(optimized_log_nu)))
    /\ UNCHANGED <<word2vec_vars, nb, levels, target, log_nu, least, initial_values, bounds,
                   constraints, result, optimized_log_nu, test_log_nu, x,
                   calls, arg, ev>>

Next ==
    \/ Imports
    \/ SetLevels
    \/ ObjectiveSample
    \/ AggregateSample
    \/ Least
    \/ SetTarget
    \/ Minimize
    \/ TakeX
    \/ TakeXOverride
    \/ Check
    \/ TestExtreme
    \/ Override
    \/ NoOverride
    \/ Plot
    \/ Review
    \/ PickX
    \/ Contributions
    \/ LogNc

Spec == Init /\ [][Next]_vars

(***************************************************************************)
(* The functions on their own: one of them is applied to a vector of the   *)
(* configured length whose components are multiples of Den * ln 2, so that *)
(* every logit is a whole number of ln 2 and any two floats compare.       *)
(***************************************************************************)
EvalVectors(n, c) ==
    [1 .. c -> {Den(n) * a : a \in (0 - MaxNeg) .. MaxNu}]

\* West's Conclusion, "if you modify the objective by ... fractal will
\* appear": the minimizers of the flipped objective among the vectors within
\* West's bounds whose volume is tgt.  The sum of a vector of that volume is
\* at most Den * log2 of it, which bounds the search: the candidates are
\* the vectors of c multiples of Den * ln 2, none below 0, of a sum of at
\* most most * Den.
RECURSIVE FlippedCandidates(_, _)
FlippedCandidates(c, most) ==
    IF c = 0
    THEN {<<>>}
    ELSE UNION {{<<Den("West") * a>> \o v :
                    v \in FlippedCandidates(c - 1, most - a)} : a \in 0 .. most}

flipped_feasible(c, tgt) ==
    LET most == IF tgt = {} THEN 0 ELSE Max(tgt) \div Den("West")
    IN  {v \in FlippedCandidates(c, most) :
            /\ InBounds(v, bounds_of("West", c))
            /\ aggregate("West", asarray(v), c) = tgt}

flipped_optimum(c, tgt) ==
    LET feasible == flipped_feasible(c, tgt)
    IN  {v \in feasible :
            \A w \in feasible :
                Leq(get_log_resistance_flipped(asarray(v), c),
                    get_log_resistance_flipped(asarray(w), c), Den("West"))}

EvalInit ==
    /\ nb \in Notebooks
    /\ pc = 0
    /\ defined = {}
    /\ levels \in 1 .. MaxEvalLevels
    /\ arg \in EvalVectors(nb, levels)
    /\ ev = NoEv
    /\ target = {}
    /\ log_nu = asarray(<<>>)
    /\ least = {}
    /\ initial_values = <<>>
    /\ bounds = <<>>
    /\ constraints = <<>>
    /\ result = <<>>
    /\ optimized_log_nu = <<>>
    /\ test_log_nu = <<>>
    /\ x = <<>>
    /\ out = <<>>
    /\ calls = 0
    /\ FreshWord2Vec

\* get_log_resistance(arg), get_log_consumption(arg)
EvalObjective ==
    /\ pc = 0
    /\ ev = NoEv
    /\ ev' = [ev EXCEPT
                !.logits = objective_logits(nb, asarray(arg), levels),
                !.value = objective(nb, asarray(arg), levels),
                !.exponentiated =
                    objective_exponents(nb, asarray(arg), levels)]
    /\ UNCHANGED <<word2vec_vars, nb, pc, defined, levels, target, log_nu, least,
                   initial_values, bounds, constraints, result,
                   optimized_log_nu, test_log_nu, x, out, calls, arg>>

\* get_log_volume(arg), get_log_population(arg)
EvalAggregate ==
    /\ pc = 0
    /\ ev = NoEv
    /\ ev' = [ev EXCEPT
                !.agg_logits = IF IsWest(nb)
                               THEN volume_logits_west(asarray(arg), levels)
                               ELSE <<>>,
                !.agg = aggregate(nb, asarray(arg), levels),
                !.exponentiated =
                    aggregate_exponents(nb, asarray(arg), levels)]
    /\ UNCHANGED <<word2vec_vars, nb, pc, defined, levels, target, log_nu, least,
                   initial_values, bounds, constraints, result,
                   optimized_log_nu, test_log_nu, x, out, calls, arg>>

\* West's Conclusion: the flipped objective at arg, and its minimizers under
\* the volume of arg
EvalFlipped ==
    /\ pc = 0
    /\ IsWest(nb)
    /\ ev = NoEv
    /\ ev' = [ev EXCEPT
                !.flipped_logits = logits_flipped(asarray(arg), levels),
                !.flipped_value = get_log_resistance_flipped(asarray(arg), levels),
                !.flipped_feasible =
                    flipped_feasible(levels, aggregate(nb, asarray(arg), levels)),
                !.flipped_optimum =
                    flipped_optimum(levels, aggregate(nb, asarray(arg), levels))]
    /\ UNCHANGED <<word2vec_vars, nb, pc, defined, levels, target, log_nu, least,
                   initial_values, bounds, constraints, result,
                   optimized_log_nu, test_log_nu, x, out, calls, arg>>

\* the per-level printout of the notebooks that have one, for x = arg
EvalContributions ==
    /\ pc = 0
    /\ nb # "West"
    /\ ev = NoEv
    /\ ev' = [ev EXCEPT
                !.contributions =
                    CASE nb = "Biology" ->
                           contributions_biology(asarray(arg), levels)
                      [] nb = "WestDiag" ->
                           contributions_west(asarray(arg), levels)
                      [] nb = "Logistics" ->
                           contributions_logistics(asarray(arg), levels)]
    /\ UNCHANGED <<word2vec_vars, nb, pc, defined, levels, target, log_nu, least,
                   initial_values, bounds, constraints, result,
                   optimized_log_nu, test_log_nu, x, out, calls, arg>>

EvalNext ==
    \/ EvalObjective
    \/ EvalAggregate
    \/ EvalFlipped
    \/ EvalContributions

EvalSpec == EvalInit /\ [][EvalNext]_vars

(***************************************************************************)
(* The sample cells with the notebooks' own level counts: the cells from   *)
(* the imports to the least aggregate, which evaluate the functions at     *)
(* np.log(2) * np.ones(...), for the configured level count and every      *)
(* smaller one.                                                            *)
(***************************************************************************)
LevelsOf(n) ==
    CASE n = "Biology" -> Biology_levels
      [] IsWest(n) -> West_LEVELS
      [] n = "Logistics" -> Logistics_LEVELS

\* EXPERIMENT = {'levels': 5}; LEVELS = 10; LEVELS = 4
SetLevelsConfigured ==
    /\ Step("levels")
    /\ \E c \in 1 .. LevelsOf(nb) : levels' = c
    /\ UNCHANGED <<word2vec_vars, nb, target, log_nu, least, initial_values, bounds,
                   constraints, result, optimized_log_nu, test_log_nu, x, out,
                   calls, arg, ev>>

SampleNext ==
    \/ Imports
    \/ SetLevelsConfigured
    \/ ObjectiveSample
    \/ AggregateSample
    \/ Least

SampleSpec == Init /\ [][SampleNext]_vars

(***************************************************************************)
(* texts/word2vec.ipynb, the text data: the corpus text8, the vocabulary   *)
(* of the most frequent words, the (target, context) pairs and their ids.  *)
(* The corpus is any list of at most MaxCorpus words out of MaxWords, and  *)
(* VOCAB_SIZE any size up to MaxVocab.                                     *)
(***************************************************************************)
MaxWords == 3
MaxCorpus == 6
MaxVocab == 2

NEIGHBOURS == 2

WordList == <<"the", "of", "one", "zero", "nine", "two">>
Words == {WordList[i] : i \in 1 .. MaxWords}
Corpora == UNION {[1 .. n -> Words] : n \in 0 .. MaxCorpus}

\* a[j] of Python for a list a and an index j that may be negative
PyIndex(a, j) == IF j >= 0 THEN a[j + 1] ELSE a[Len(a) + j + 1]

\* a[n:-n] of Python, n > 0
PyTrimmed(a, n) ==
    [k \in 1 .. Max({0, Len(a) - 2 * n}) |-> a[n + k]]

\* Counter(corpus).most_common(n): by count, the most frequent first, equal
\* counts in the order of first appearance
CountOf(w, corpus) == Cardinality({i \in 1 .. Len(corpus) : corpus[i] = w})

FirstAt(w, corpus) == Min({i \in 1 .. Len(corpus) : corpus[i] = w})

RankOf(w, corpus) ==
    Cardinality({u \in {corpus[i] : i \in 1 .. Len(corpus)} :
        \/ CountOf(u, corpus) > CountOf(w, corpus)
        \/ /\ CountOf(u, corpus) = CountOf(w, corpus)
           /\ FirstAt(u, corpus) < FirstAt(w, corpus)})

most_common(corpus, n) ==
    LET distinct == {corpus[i] : i \in 1 .. Len(corpus)}
    IN  [r \in 1 .. Min({n, Cardinality(distinct)}) |->
            CHOOSE w \in distinct : RankOf(w, corpus) = r - 1]

\* for i, (word, _) in enumerate(counter.most_common(VOCAB_SIZE)):
\*     vocab[word] = i
vocab_of(corpus, n) ==
    LET mc == most_common(corpus, n)
    IN  [w \in {mc[r] : r \in 1 .. Len(mc)} |->
            (CHOOSE r \in 1 .. Len(mc) : mc[r] = w) - 1]

\* id_to_word = {i: w for w, i in vocab.items()}
inverse_of(voc) ==
    [i \in {voc[w] : w \in DOMAIN voc} |->
        CHOOSE w \in DOMAIN voc : voc[w] = i]

\* for (i, target) in enumerate(text8[NEIGHBOURS:-NEIGHBOURS]):
\*     for j in range(i-NEIGHBOURS, i+NEIGHBOURS+1):
\*         if j == i: continue
\*         context = text8[j]
\* The k-th pair appended comes from the loop indices i and j below.
LoopI(k) == (k - 1) \div (2 * NEIGHBOURS)

LoopJ(k) ==
    LET r == (k - 1) % (2 * NEIGHBOURS)
    IN  LoopI(k) - NEIGHBOURS + r + (IF r >= NEIGHBOURS THEN 1 ELSE 0)

PairCount(corpus) == 2 * NEIGHBOURS * Len(PyTrimmed(corpus, NEIGHBOURS))

targets_of(corpus) ==
    [k \in 1 .. PairCount(corpus) |->
        PyTrimmed(corpus, NEIGHBOURS)[LoopI(k) + 1]]

contexts_of(corpus) ==
    [k \in 1 .. PairCount(corpus) |-> PyIndex(corpus, LoopJ(k))]

\* the corpus positions (0-based) the two words of the k-th pair were read at
pair_at_of(corpus) ==
    [k \in 1 .. PairCount(corpus) |->
        <<NEIGHBOURS + LoopI(k),
          IF LoopJ(k) >= 0 THEN LoopJ(k) ELSE Len(corpus) + LoopJ(k)>>]

\* a faulty variant: each list filtered on its own word
RECURSIVE convert_unaligned(_, _, _)
convert_unaligned(ts, cs, voc) ==
    IF ts = <<>> \/ cs = <<>> THEN [t |-> <<>>, c |-> <<>>]
    ELSE LET rest == convert_unaligned(Tail(ts), Tail(cs), voc)
         IN  [t |-> IF Head(ts) \in DOMAIN voc
                    THEN <<voc[Head(ts)]>> \o rest.t ELSE rest.t,
              c |-> IF Head(cs) \in DOMAIN voc
                    THEN <<voc[Head(cs)]>> \o rest.c ELSE rest.c]

\* for w1, w2 in zip(targets, contexts):
\*     if w1 not in vocab or w2 not in vocab: continue
\*     target_ids.append(vocab[w1]); context_ids.append(vocab[w2])
RECURSIVE convert(_, _, _)
convert(ts, cs, voc) ==
    IF ts = <<>> \/ cs = <<>> THEN [t |-> <<>>, c |-> <<>>]
    ELSE LET rest == convert(Tail(ts), Tail(cs), voc)
         IN  IF Head(ts) \notin DOMAIN voc \/ Head(cs) \notin DOMAIN voc
             THEN rest
             ELSE [t |-> <<voc[Head(ts)]>> \o rest.t,
                   c |-> <<voc[Head(cs)]>> \o rest.c]

Word2VecCells ==
    <<"imports", "config", "switches", "read", "vocab", "id_to_word",
      "pairs", "ids", "dataset", "model", "train">>

Word2VecCell(kind) ==
    CHOOSE i \in 1 .. Len(Word2VecCells) : Word2VecCells[i] = kind

Word2VecStep(kind) ==
    /\ nb = "Word2Vec"
    /\ pc \in 1 .. Len(Word2VecCells)
    /\ Word2VecCells[pc] = kind
    /\ pc' = pc + 1
    /\ UNCHANGED <<nb, out, fractal_vars, W, step, events, train_calls,
                   loss_value>>

TextInit ==
    /\ nb = "Word2Vec"
    /\ pc = 1
    /\ FreshKernel
    /\ FreshWord2Vec
    /\ arg = <<>>
    /\ ev = NoEv

\* import numpy as np; import tensorflow as tf; ...
Word2VecImports ==
    /\ Word2VecStep("imports")
    /\ defined' = defined \cup {"np", "tf", "keras", "Counter"}
    /\ UNCHANGED <<vocab_size, text8, vocab, id_to_word, targets, contexts,
                   pair_at, target_ids, context_ids>>

\* NEIGHBOURS = 2; VOCAB_SIZE = 2 ** 14; VECTOR_DIM = 300; BATCH_SIZE = 128
Configure ==
    /\ Word2VecStep("config")
    /\ \E n \in 1 .. MaxVocab : vocab_size' = n
    /\ defined' = defined \cup {"NEIGHBOURS", "VOCAB_SIZE", "VECTOR_DIM",
                                "BATCH_SIZE"}
    /\ UNCHANGED <<text8, vocab, id_to_word, targets, contexts, pair_at,
                   target_ids, context_ids>>

\* TEST_WITHOUT_FANTASY_ENERGY = False; TEST_UNIFORM_SAMPLE_FANTASY = False
Switches ==
    /\ Word2VecStep("switches")
    /\ defined' = defined \cup {"TEST_WITHOUT_FANTASY_ENERGY",
                                "TEST_UNIFORM_SAMPLE_FANTASY"}
    /\ UNCHANGED <<vocab_size, text8, vocab, id_to_word, targets, contexts,
                   pair_at, target_ids, context_ids>>

\* text8 = [word for word in list(f)[0].split(' ') if len(word) > 1]:
\* any list of words of more than one character
ReadText ==
    /\ Word2VecStep("read")
    /\ text8' \in Corpora
    /\ defined' = defined \cup {"text8"}
    /\ UNCHANGED <<vocab_size, vocab, id_to_word, targets, contexts, pair_at,
                   target_ids, context_ids>>

\* counter = Counter(text8); vocab = {}; for ...: vocab[word] = i
BuildVocab ==
    /\ Word2VecStep("vocab")
    /\ "text8" \in defined
    /\ vocab' = vocab_of(text8, vocab_size)
    /\ defined' = defined \cup {"counter", "vocab"}
    /\ UNCHANGED <<vocab_size, text8, id_to_word, targets, contexts, pair_at,
                   target_ids, context_ids>>

InvertVocab ==
    /\ Word2VecStep("id_to_word")
    /\ "vocab" \in defined
    /\ id_to_word' = inverse_of(vocab)
    /\ defined' = defined \cup {"id_to_word"}
    /\ UNCHANGED <<vocab_size, text8, vocab, targets, contexts, pair_at,
                   target_ids, context_ids>>

BuildPairs ==
    /\ Word2VecStep("pairs")
    /\ "text8" \in defined
    /\ targets' = targets_of(text8)
    /\ contexts' = contexts_of(text8)
    /\ pair_at' = pair_at_of(text8)
    /\ defined' = defined \cup {"targets", "contexts"}
    /\ UNCHANGED <<vocab_size, text8, vocab, id_to_word, target_ids,
                   context_ids>>

\* ...; target_ids = np.asarray(target_ids, dtype='int32'); ...
ConvertToIds ==
    /\ Word2VecStep("ids")
    /\ {"targets", "contexts", "vocab"} \subseteq defined
    /\ target_ids' = convert(targets, contexts, vocab).t
    /\ context_ids' = convert(targets, contexts, vocab).c
    /\ defined' = defined \cup {"target_ids", "context_ids"}
    /\ UNCHANGED <<vocab_size, text8, vocab, id_to_word, targets, contexts,
                   pair_at>>

TextNext ==
    \/ Word2VecImports
    \/ Configure
    \/ Switches
    \/ ReadText
    \/ BuildVocab
    \/ InvertVocab
    \/ BuildPairs
    \/ ConvertToIds

TextSpec == TextInit /\ [][TextNext]_vars

\* ---------------------------------------------------------------------------
\* texts/word2vec.ipynb: the model
\* ---------------------------------------------------------------------------

MaxDim == 1
MaxBatch == 2

\* TEST_WITHOUT_FANTASY_ENERGY = False
TEST_WITHOUT_FANTASY_ENERGY == FALSE

\* W_init = tf.random.uniform([vocab_size, vector_dim], minval=-0.05,
\* maxval=0.05): the entries are held in units of 0.04 and take the two values
\* -0.04 and 0.04 of that range; energies are then in units of 0.0016
WeightValues == {-1, 1}

Ids(n) == 0 .. n - 1

Weights(n, d) == [Ids(n) -> [1 .. d -> WeightValues]]

\* a pair of id tensors of one shape (B,), B being the batch length
IdPairs(n, b) == [1 .. b -> Ids(n)] \X [1 .. b -> Ids(n)]

\* tf.nn.embedding_lookup(self.W, ids): (B, D)
embedding_lookup(weights, ids) ==
    [b \in 1 .. Len(ids) |-> weights[ids[b]]]

\* tf.reduce_sum(u * v, axis=1) of two tensors of shape (B, D)
reduce_sum_of_product(u, v) ==
    [b \in 1 .. Len(u) |->
        SumSeq([d \in 1 .. Len(u[b]) |-> u[b][d] * v[b][d]])]

\* x, y = pair; return -tf.reduce_sum(self(x) * self(y), axis=1)
energy(weights, pair) ==
    LET prod == reduce_sum_of_product(embedding_lookup(weights, pair[1]),
                                      embedding_lookup(weights, pair[2]))
    IN  [b \in 1 .. Len(prod) |-> -prod[b]]

\* tf.reduce_mean of a tensor of shape (B,), as the fraction num / den
reduce_mean(v) == [num |-> SumSeq(v), den |-> Len(v)]

\* Word2Vec.loss
loss(weights, real, fantasy) ==
    IF TEST_WITHOUT_FANTASY_ENERGY
    THEN reduce_mean(energy(weights, real))
    ELSE LET re == energy(weights, real)
             fe == energy(weights, fantasy)
         IN  reduce_mean([b \in 1 .. Len(re) |-> re[b] - fe[b]])

\* Word2Vec.sample_fantasy: two ids per row, drawn with tf.random.uniform or
\* tf.random.categorical; every id of the vocabulary has positive probability
sample_fantasy(n, real) == IdPairs(n, Len(real[1]))

\* ---------------------------------------------------------------------------
\* Word2Vec.loss applied to a real and a fantasy pair
\* ---------------------------------------------------------------------------

\* the corpus the model is trained on here, and a VOCAB_SIZE that leaves its
\* rarest word out of the vocabulary
TrainCorpus == <<"the", "of", "the", "one", "of", "the">>

TrainVocabSize ==
    Cardinality({TrainCorpus[i] : i \in 1 .. Len(TrainCorpus)}) - 1

LossArgs(n) ==
    UNION {IdPairs(n, b) \X IdPairs(n, b) : b \in 1 .. MaxBatch}

LossInit ==
    /\ nb = "Word2Vec"
    /\ pc = 0
    /\ FreshKernel
    /\ vocab_size = TrainVocabSize
    /\ \E d \in 1 .. MaxDim : W \in Weights(vocab_size, d)
    /\ arg \in LossArgs(vocab_size)
    /\ ev = NoEv
    /\ text8 = <<>>
    /\ vocab = <<>>
    /\ id_to_word = <<>>
    /\ targets = <<>>
    /\ contexts = <<>>
    /\ pair_at = <<>>
    /\ target_ids = <<>>
    /\ context_ids = <<>>
    /\ step = 0
    /\ events = <<>>
    /\ train_calls = 0
    /\ loss_value = <<>>

\* model.loss(real_pair, fantasy_pair)
ApplyLoss ==
    /\ nb = "Word2Vec"
    /\ pc = 0
    /\ loss_value = <<>>
    /\ loss_value' = <<loss(W, arg[1], arg[2])>>
    /\ UNCHANGED <<nb, pc, defined, out, fractal_vars, vocab_size, text8,
                   vocab, id_to_word, targets, contexts, pair_at, target_ids,
                   context_ids, W, step, events, train_calls>>

LossNext == ApplyLoss

LossSpec == LossInit /\ [][LossNext]_vars

\* ---------------------------------------------------------------------------
\* texts/word2vec.ipynb: the training
\* ---------------------------------------------------------------------------

MaxSteps == 4

\* the kernel after the cell that converts the pairs of TrainCorpus to ids
TrainInit ==
    /\ nb = "Word2Vec"
    /\ pc = Word2VecCell("dataset")
    /\ defined = {"np", "tf", "keras", "Counter", "NEIGHBOURS", "VOCAB_SIZE",
                  "VECTOR_DIM", "BATCH_SIZE", "TEST_WITHOUT_FANTASY_ENERGY",
                  "TEST_UNIFORM_SAMPLE_FANTASY", "text8", "counter", "vocab",
                  "id_to_word", "targets", "contexts", "target_ids",
                  "context_ids"}
    /\ levels = 0
    /\ target = {}
    /\ log_nu = asarray(<<>>)
    /\ least = {}
    /\ initial_values = <<>>
    /\ bounds = <<>>
    /\ constraints = <<>>
    /\ result = <<>>
    /\ optimized_log_nu = <<>>
    /\ test_log_nu = <<>>
    /\ x = <<>>
    /\ out = <<>>
    /\ calls = 0
    /\ arg = <<>>
    /\ ev = NoEv
    /\ vocab_size = TrainVocabSize
    /\ text8 = TrainCorpus
    /\ vocab = vocab_of(TrainCorpus, TrainVocabSize)
    /\ id_to_word = inverse_of(vocab)
    /\ targets = targets_of(TrainCorpus)
    /\ contexts = contexts_of(TrainCorpus)
    /\ pair_at = pair_at_of(TrainCorpus)
    /\ target_ids = convert(targets, contexts, vocab).t
    /\ context_ids = convert(targets, contexts, vocab).c
    /\ W = <<>>
    /\ step = 0
    /\ events = <<>>
    /\ train_calls = 0
    /\ loss_value = <<>>

\* ds = tf.data.Dataset.from_tensor_slices((target_ids, context_ids))
BuildDataset ==
    /\ nb = "Word2Vec"
    /\ pc = Word2VecCell("dataset")
    /\ {"target_ids", "context_ids"} \subseteq defined
    /\ pc' = pc + 1
    /\ defined' = defined \cup {"ds"}
    /\ UNCHANGED <<nb, out, fractal_vars, vocab_size, text8, vocab,
                   id_to_word, targets, contexts, pair_at, target_ids,
                   context_ids, W, step, events, train_calls, loss_value>>

\* step = tf.Variable(0, dytpe=tf.int32): the misspelt keyword is dropped by
\* the TensorFlow of the recorded run, which infers int32 from the 0; other
\* releases reject it with a TypeError
get_train_step_outcomes == {"returns", "TypeError"}

\* model = Word2Vec(VOCAB_SIZE, VECTOR_DIM); optimizer = ...SGD()
\* train_step, step = model.get_train_step(optimizer)
CreateModel ==
    /\ nb = "Word2Vec"
    /\ pc = Word2VecCell("model")
    /\ \E d \in 1 .. MaxDim : W' \in Weights(vocab_size, d)
    /\ \E outcome \in get_train_step_outcomes :
        \/ /\ outcome = "returns"
           /\ step' = 0
           /\ events' = <<>>
           /\ defined' = defined \cup {"model", "optimizer", "train_step",
                                       "step"}
           /\ pc' = pc + 1
        \/ /\ outcome = "TypeError"
           /\ step' = step
           /\ events' = <<"TypeError">>
           /\ defined' = defined \cup {"model", "optimizer"}
           /\ pc' = 0
    /\ UNCHANGED <<nb, out, fractal_vars, vocab_size, text8, vocab,
                   id_to_word, targets, contexts, pair_at, target_ids,
                   context_ids, train_calls, loss_value>>

\* the batches ds.shuffle(10000).batch(BATCH_SIZE) can yield: up to MaxBatch
\* distinct rows of the dataset in any order
Batches(tids, cids) ==
    LET picks == UNION {[1 .. b -> 1 .. Len(tids)] : b \in 1 .. MaxBatch}
    IN  {<<[b \in 1 .. Len(p) |-> tids[p[b]]],
           [b \in 1 .. Len(p) |-> cids[p[b]]]>> :
            p \in {q \in picks :
                    \A a, b \in 1 .. Len(q) : a # b => q[a] # q[b]}}

\* a faulty variant: the counter moved before the update
train_step_ops_counting_first ==
    <<"sample_fantasy", "assign_add", "loss", "gradient", "apply_gradients",
      "return">>

\* the body of train_step, in program order
train_step_ops ==
    <<"sample_fantasy", "loss", "gradient", "apply_gradients", "assign_add",
      "return">>

\* how often an operation occurs in the body
Occurrences(op) ==
    Cardinality({i \in 1 .. Len(train_step_ops) : train_step_ops[i] = op})

\* what train_step can return for the batches of the dataset
train_step_returns(weights, tids, cids, n) ==
    UNION {{loss(weights, real, fantasy) :
                fantasy \in sample_fantasy(n, real)} :
            real \in Batches(tids, cids)}

\* optimizer.apply_gradients([(grads, self.W)]): some matrix of the shape of W
apply_gradients(weights) ==
    [DOMAIN weights -> [DOMAIN weights[0] -> WeightValues]]

\* for real_pair in ds.shuffle(10000).batch(BATCH_SIZE):
\*     loss_value = train_step(real_pair)
TrainStep ==
    /\ nb = "Word2Vec"
    /\ pc = Word2VecCell("train")
    /\ {"ds", "train_step", "step"} \subseteq defined
    /\ train_calls < MaxSteps
    /\ train_calls' = train_calls + 1
    /\ \E value \in train_step_returns(W, target_ids, context_ids, vocab_size) :
        loss_value' = <<value>>
    /\ W' \in IF Occurrences("apply_gradients") > 0
              THEN apply_gradients(W) ELSE {W}
    /\ step' = step + Occurrences("assign_add")
    /\ events' = train_step_ops
    /\ defined' = defined \cup {"real_pair", "loss_value"}
    /\ UNCHANGED <<nb, pc, out, fractal_vars, vocab_size, text8, vocab,
                   id_to_word, targets, contexts, pair_at, target_ids,
                   context_ids>>

TrainNext ==
    \/ BuildDataset
    \/ CreateModel
    \/ TrainStep

TrainSpec == TrainInit /\ [][TrainNext]_vars

(***************************************************************************)
(* Properties                                                              *)
(***************************************************************************)
Range(q) == {q[i] : i \in 1 .. Len(q)}

\* the sum of v[lo] .. v[hi], 0 when the range is empty
RECURSIVE SumOver(_, _, _)
SumOver(v, lo, hi) == IF hi < lo THEN 0 ELSE v[hi] + SumOver(v, lo, hi - 1)

\* m <= value <= m + ln(len) for the logits and their reduction
WithinLogSumExpBounds(logits, value, den) ==
    LET m == Max(Range(logits))
    IN  /\ Leq(Real(m), value, den)
        /\ Leq(value, PlusLogN(m, Len(logits), den), den)

\* C1: the log-sum-exp of the C+1 logits that each objective and aggregate
\* function builds is at least the largest logit and at most the largest
\* logit plus ln of the number of logits.
C1_LogSumExpBounds ==
    /\ ev.logits # <<>> =>
        /\ Len(ev.logits) = levels + 1
        /\ WithinLogSumExpBounds(ev.logits, ev.value, Den(nb))
    /\ ev.agg_logits # <<>> =>
        /\ Len(ev.agg_logits) = levels + 1
        /\ WithinLogSumExpBounds(ev.agg_logits, ev.agg, Den(nb))

\* an objective of three levels evaluated on unequal logits, where the
\* reduction lies strictly between the two bounds
C1_Witness ==
    /\ pc = 0
    /\ levels = 3
    /\ ev.logits # <<>>
    /\ Cardinality(Range(ev.logits)) > 1
    /\ ev.value # Real(Max(Range(ev.logits)))
    /\ ev.value # PlusLogN(Max(Range(ev.logits)), Len(ev.logits), Den(nb))

\* C2: Biology's get_log_resistance builds exactly C+1 logits, and logit k
\* is -(5/3) times the sum of nu over k .. C-1 minus the sum of nu over
\* 0 .. k-1 (held times 3).
C2_BiologyLogits ==
    (nb = "Biology" /\ ev.logits # <<>>) =>
        /\ Len(ev.logits) = levels + 1
        /\ \A k \in 0 .. levels :
            ev.logits[k + 1] =
                (0 - 5) * SumOver(arg, k + 1, levels) - 3 * SumOver(arg, 1, k)

\* Biology's logits evaluated on a vector of three unequal components
C2_Witness ==
    /\ nb = "Biology"
    /\ levels = 3
    /\ ev.logits # <<>>
    /\ arg[1] # arg[2]
    /\ arg[2] # arg[3]
    /\ arg[1] # arg[3]

\* the index of the cell of this kind in the notebook that is run
CellIndex(kind) == CHOOSE i \in 1 .. Len(Cells(nb)) : Cells(nb)[i] = kind

\* the cell of this kind has been executed
Executed(kind) ==
    /\ pc > 0
    /\ kind \in Range(Cells(nb))
    /\ pc > CellIndex(kind)

RunFinished == pc > Len(Cells(nb))

\* C3: after a solver run that reports success, the aggregate of the vector
\* it returned equals the configured target, in every notebook.
C3_ConstraintMetOnSuccess ==
    (result # <<>> /\ result[1].success) =>
        aggregate(nb, asarray(result[1].x), levels) = target

\* a successful run of two levels whose answer is not the equal-components
\* vector, with other vectors of the grid within the bounds and off target
C3_Witness ==
    /\ RunFinished
    /\ levels = 2
    /\ result # <<>>
    /\ result[1].success
    /\ result[1].x[1] # result[1].x[2]
    /\ \E v \in XVectors(nb, levels) :
        /\ InBounds(v, bounds)
        /\ aggregate(nb, asarray(v), levels) # target

\* C4: every component of the vector the solver returned is at least 0, and
\* in Biology, which declares the cap, the last component is at most 6.
C4_BoundsMet ==
    result # <<>> =>
        /\ \A i \in 1 .. Len(result[1].x) : result[1].x[i] >= 0
        /\ nb = "Biology" => result[1].x[levels] <= UpperBound

\* Biology's solver answers with the last component at the cap, while the
\* grid holds vectors below 0 and above the cap
C4_Witness ==
    /\ nb = "Biology"
    /\ result # <<>>
    /\ result[1].x[levels] = UpperBound
    /\ \E v \in XVectors(nb, levels) : v[levels] > UpperBound
    /\ \E v \in XVectors(nb, levels) : v[1] < 0

\* C5 as stated: the start handed to the optimizer satisfies every bound
\* and the equality constraint.
C5_StartFeasible ==
    initial_values # <<>> =>
        /\ InBounds(initial_values, bounds)
        /\ Satisfies(nb, initial_values, constraints, levels, target)

\* C5: the start handed to the optimizer satisfies every declared bound; it
\* does not satisfy the equality constraint (every draw lies in [3, 5], and
\* the aggregate of such a vector is not the target).
C5_StartWithinBoundsOnly ==
    initial_values # <<>> =>
        /\ Len(initial_values) = levels
        /\ InBounds(initial_values, bounds)
        /\ ~Satisfies(nb, initial_values, constraints, levels, target)

\* the optimizer has been called from a start of two unequal draws
C5_Witness ==
    /\ Executed("minimize")
    /\ levels = 2
    /\ initial_values # <<>>
    /\ initial_values[1] # initial_values[2]
    /\ constraints # <<>>

\* the entries of out that the cells of these kinds displayed
Shown(kinds) == {i \in 1 .. Len(out) : out[i].cell \in kinds}

\* C6 as stated: once the optimizer has returned, the optimized vector is
\* the one it returned, and the result check, the per-level diagnostic and
\* the plot evaluate exactly that vector.
C6_Frozen ==
    /\ "optimized_log_nu" \in defined => optimized_log_nu = result[1].x
    /\ \A i \in Shown({"check", "plot", "contributions"}) :
        out[i].of = result[1].x

\* a finished Logistics run whose diagnostics evaluated another vector than
\* the one the optimizer returned
C6_Witness ==
    /\ nb = "Logistics"
    /\ RunFinished
    /\ result[1].success
    /\ optimized_log_nu # result[1].x
    /\ Shown({"check", "plot", "contributions"}) # {}

\* C7: in West's objective (exponent -2/3), whenever all components are
\* at least 0 and the last one is positive and larger than every other, the
\* term k = C exceeds every other term: logit C is strictly greater than
\* every other logit.
C7_LastTermDominates ==
    (/\ IsWest(nb)
     /\ ev.logits # <<>>
     /\ \A i \in 1 .. levels : arg[i] >= 0
     /\ arg[levels] > 0
     /\ \A i \in 1 .. levels - 1 : arg[levels] > arg[i])
    => \A k \in 0 .. levels - 1 : ev.logits[levels + 1] > ev.logits[k + 1]

\* West's objective evaluated on three levels, the last component the
\* largest and an earlier one positive
C7_Witness ==
    /\ IsWest(nb)
    /\ levels = 3
    /\ ev.logits # <<>>
    /\ arg[1] = 0
    /\ arg[2] > 0
    /\ arg[3] > arg[2]

Reorderings(c) == {p \in [1 .. c -> 1 .. c] : Range(p) = 1 .. c}

\* the flipped objective's term k = 0 is the largest for arg >= 0
C8_FirstTermDominates ==
    (ev.flipped_logits # <<>> /\ \A i \in 1 .. levels : arg[i] >= 0) =>
        \A k \in 0 .. levels : ev.flipped_logits[1] >= ev.flipped_logits[k + 1]

\* that term is the same for every permutation of the components of arg
C8_FirstTermSymmetric ==
    ev.flipped_logits # <<>> =>
        \A p \in Reorderings(levels) :
            logits_flipped(asarray([i \in 1 .. levels |-> arg[p[i]]]), levels)[1]
                = ev.flipped_logits[1]

\* where several vectors have the volume of arg, every minimizer of the
\* flipped objective among them has its components within one step of the
\* grid, Den * ln 2, of each other
C8_OptimumNearlyEqual ==
    (ev.flipped_logits # <<>> /\ Cardinality(ev.flipped_feasible) > 1) =>
        \A v \in ev.flipped_optimum :
            Max(Range(v)) - Min(Range(v)) <= Den("West")

\* C8 as stated: with the exponent flipped to +2/3 the term k = 0 dominates
\* for every nu >= 0, that term is unchanged by permuting nu, and the
\* constrained optimum has all components approximately equal.
C8_FlippedFractal ==
    /\ C8_FirstTermDominates
    /\ C8_FirstTermSymmetric
    /\ C8_OptimumNearlyEqual

\* the flipped objective evaluated at a single-branch vector of three
\* levels that is a minimizer under its own volume, among several vectors
\* of that volume
C8_Witness ==
    /\ IsWest(nb)
    /\ levels = 3
    /\ arg = single_branch(2 * Den("West"), 3)
    /\ arg \in ev.flipped_optimum
    /\ Cardinality(ev.flipped_feasible) > 1

\* the stage of the pipeline a cell belongs to: 1 Setup (level count and
\* target), 2 definition of the objective and the aggregate, 3 the
\* optimizer call, 4 diagnostics
Stage(kind) ==
    CASE kind \in {"imports", "levels", "target"} -> 1
      [] kind \in {"objective_sample", "aggregate_sample", "least"} -> 2
      [] kind = "minimize" -> 3
      [] OTHER -> 4

\* the same with the target a stage of its own, between the definitions
\* and the optimizer call
StageWithTarget(kind) ==
    CASE kind \in {"imports", "levels"} -> 1
      [] kind \in {"objective_sample", "aggregate_sample", "least"} -> 2
      [] kind = "target" -> 3
      [] kind = "minimize" -> 4
      [] OTHER -> 5

\* the cells executed so far
Done == 1 .. (IF pc - 1 < Len(Cells(nb)) THEN pc - 1 ELSE Len(Cells(nb)))

CalledExactlyOnce ==
    /\ calls <= 1
    /\ Executed("minimize") => calls = 1

C10_NoRetry ==
    (result # <<>> /\ ~result[1].success) =>
        /\ calls = 1
        /\ \A i \in Shown({"minimize"}) :
            /\ out[i].value = result[1]
            /\ out[i].value.success = FALSE
            /\ out[i].value.message = "Iteration limit reached"
        /\ Cardinality(Shown({"minimize"})) = 1

\* a finished run whose only optimizer call reported failure
C10_Witness ==
    /\ RunFinished
    /\ result # <<>>
    /\ ~result[1].success
    /\ result[1].status = 9

\* C11: the bounds handed to the optimizer hold one (low, high) pair per
\* component, every low is 0, and every high is None except Biology's
\* last, which is 6.
C11_BoundsShape ==
    Executed("minimize") =>
        /\ Len(bounds) = levels
        /\ \A i \in 1 .. Len(bounds) :
            /\ bounds[i].lo = <<0>>
            /\ bounds[i].hi = IF nb = "Biology" /\ i = levels
                              THEN <<UpperBound>>
                              ELSE <<>>

\* Biology's optimizer has been called with two levels: one pair without a
\* cap and the capped last pair
C11_Witness ==
    /\ nb = "Biology"
    /\ Executed("minimize")
    /\ levels = 2
    /\ bounds[1].hi = <<>>
    /\ bounds[2].hi = <<UpperBound>>

\* C12: the constraints handed to the optimizer are exactly one constraint,
\* of type 'eq', whose function returns aggregate(nu) - target for every nu
\* (and so is zero exactly when the aggregate equals the target).
C12_OneEqualityConstraint ==
    Executed("minimize") =>
        /\ Len(constraints) = 1
        /\ constraints[1].type = "eq"
        /\ \A v \in XVectors(nb, levels) \cup {initial_values} :
            LET d == constraint_fun(nb, asarray(v), levels, target)
                a == aggregate(nb, asarray(v), levels)
            IN  /\ d.minuend = a
                /\ d.subtrahend = target
                /\ Satisfies(nb, v, constraints, levels, target)
                       <=> a = target

\* the optimizer has been called with two levels, and the grid holds a
\* vector on the target and one off it
C12_Witness ==
    /\ Executed("minimize")
    /\ levels = 2
    /\ Len(constraints) = 1
    /\ \E v \in XVectors(nb, levels) :
        aggregate(nb, asarray(v), levels) = target
    /\ \E v \in XVectors(nb, levels) :
        aggregate(nb, asarray(v), levels) # target

\* the terms of the objective among what the per-level loop prints: the
\* first column in WestDiag, whose second column holds the terms of the
\* volume
ObjectiveColumn(n, printed) ==
    IF n = "WestDiag"
    THEN [i \in 1 .. Len(printed) |-> printed[i][1]]
    ELSE printed

C14_LevelsFixed ==
    [][(pc > 0 /\ "levels" \in defined) => levels' = levels]_vars

\* a finished Biology run of two levels, the target written into the
\* mapping that holds the level count
C14_Witness ==
    /\ nb = "Biology"
    /\ RunFinished
    /\ levels = 2
    /\ {"levels", "target", "result"} \subseteq defined
    /\ target = target_of(nb, 2)

\* the cells that evaluate the objective
ObjectiveCells ==
    {"objective_sample", "minimize", "check", "test_extreme", "pick_x"}

\* the array on which a displayed entry of such a cell evaluated the
\* objective, and the value it got
EvaluatedAt(e) ==
    CASE e.cell = "objective_sample" ->
           IF nb = "Logistics" THEN [shape |-> <<1, Len(e.of)>>, flat |-> e.of]
                               ELSE asarray(e.of)
      [] e.cell = "minimize" -> asarray(e.value.x)
      [] OTHER -> asarray(e.of)

EvaluatedTo(e) ==
    CASE e.cell = "objective_sample" -> e.value
      [] e.cell = "minimize" -> e.value.fun
      [] OTHER -> e.value[1]

C17_SumAggregate ==
    (~IsWest(nb) /\ "levels" \in defined) =>
        /\ \A i \in Shown({"aggregate_sample", "least"}) :
            /\ \A k \in 1 .. Len(out[i].of) : out[i].of[k] = 1
            /\ Len(out[i].of) = levels
            /\ out[i].value = Real(Den(nb) * levels * 1)
        /\ \A v \in EvalVectors(nb, levels) :
            aggregate(nb, asarray(v), levels)
                = Real(Den(nb) * SumOver(v, 1, levels))

\* Biology's sample cells at its five levels: get_log_volume and
\* least_log_volume both 5 ln 2
C17_Witness ==
    /\ nb = "Biology"
    /\ levels = Biology_levels
    /\ \E i \in Shown({"aggregate_sample"}) : out[i].value = Real(15)
    /\ \E i \in Shown({"least"}) : out[i].value = Real(15)

(***************************************************************************)
(* Decimal arithmetic for the recorded outputs.  A non-negative real is    *)
(* held to 12 decimal places as a natural number of units of 1e-12, and    *)
(* the natural number as its base-10000 digits, least significant first,   *)
(* so that no intermediate exceeds 32 bits.  Every quantity is computed    *)
(* twice, rounded down and rounded up, and a comparison is asserted only   *)
(* when the two roundings agree on it.                                     *)
(***************************************************************************)
RECURSIVE Trim(_)
Trim(a) ==
    IF a = <<>> \/ a[Len(a)] # 0 THEN a ELSE Trim(SubSeq(a, 1, Len(a) - 1))

RECURSIVE Normalise(_, _)
Normalise(raw, carry) ==
    IF raw = <<>>
    THEN IF carry = 0 THEN <<>>
         ELSE <<carry % 10000>> \o Normalise(<<>>, carry \div 10000)
    ELSE LET t == raw[1] + carry
         IN  <<t % 10000>> \o Normalise(Tail(raw), t \div 10000)

Digit(a, i) == IF i <= Len(a) THEN a[i] ELSE 0

BigAdd(a, b) ==
    Trim(Normalise([i \in 1 .. Max({Len(a), Len(b)}) |->
                       Digit(a, i) + Digit(b, i)], 0))

BigMul(a, b) ==
    IF a = <<>> \/ b = <<>> THEN <<>>
    ELSE Trim(Normalise(
            [k \in 1 .. (Len(a) + Len(b) - 1) |->
                SumSeq([i \in 1 .. Len(a) |->
                          IF k + 1 - i \in 1 .. Len(b)
                          THEN a[i] * b[k + 1 - i] ELSE 0])], 0))

\* quotient and remainder by a small natural number, top digit first
RECURSIVE DivRem(_, _)
DivRem(a, n) ==
    IF a = <<>> THEN [q |-> <<>>, r |-> 0]
    ELSE LET hi  == DivRem(Tail(a), n)
             cur == hi.r * 10000 + a[1]
         IN  [q |-> <<cur \div n>> \o hi.q, r |-> cur % n]

BigDivFloor(a, n) == Trim(DivRem(a, n).q)

BigDivCeil(a, n) ==
    IF DivRem(a, n).r = 0 THEN BigDivFloor(a, n)
    ELSE BigAdd(BigDivFloor(a, n), <<1>>)

RECURSIVE BigLeqFrom(_, _, _)
BigLeqFrom(a, b, i) ==
    IF i = 0 THEN TRUE
    ELSE IF Digit(a, i) # Digit(b, i) THEN Digit(a, i) < Digit(b, i)
    ELSE BigLeqFrom(a, b, i - 1)

BigLeq(a, b) == BigLeqFrom(a, b, Max({Len(a), Len(b)}))

\* 1.0 and the products of two 12-place numbers, rounded down and up
FxOne == <<0, 0, 0, 1>>

FxMulFloor(a, b) ==
    LET p == BigMul(a, b) IN IF Len(p) <= 3 THEN <<>> ELSE SubSeq(p, 4, Len(p))

FxMulCeil(a, b) ==
    LET p == BigMul(a, b)
    IN  IF Trim(SubSeq(p, 1, Min({3, Len(p)}))) = <<>> THEN FxMulFloor(a, b)
        ELSE BigAdd(FxMulFloor(a, b), <<1>>)

\* ceil(a / 2^k) and floor(a / 2^k), and a * 2^k
RECURSIVE Halved(_, _, _)
Halved(a, k, up) ==
    IF k = 0 THEN a
    ELSE Halved(IF up THEN BigDivCeil(a, 2) ELSE BigDivFloor(a, 2), k - 1, up)

RECURSIVE Doubled(_, _)
Doubled(a, k) == IF k = 0 THEN a ELSE Doubled(BigAdd(a, a), k - 1)

\* 2^(1/3) = 1.259921049894873..., rounded down and up at the 12th place;
\* CubeRootCertified checks the two numerals by cubing them exactly
CubeRoot2(up) ==
    IF up THEN <<9895, 2104, 2599, 1>> ELSE <<9894, 2104, 2599, 1>>

Cube(a) == BigMul(a, BigMul(a, a))

CubeRootCertified ==
    LET two == <<0, 0, 0, 0, 0, 0, 0, 0, 0, 2>>
    IN  /\ BigLeq(Cube(CubeRoot2(FALSE)), two)
        /\ BigLeq(two, Cube(CubeRoot2(TRUE)))
        /\ CubeRoot2(TRUE) = BigAdd(CubeRoot2(FALSE), <<1>>)

\* 2^(b / den), rounded down or up, for a whole b / den, and for thirds
Pow2(b, den, up) ==
    LET q    == IF b >= 0 THEN b \div den ELSE 0 - ((den - 1 - b) \div den)
        r    == b - den * q
        c    == CubeRoot2(up)
        root == CASE r = 0 -> FxOne
                  [] r = 1 /\ den = 3 -> c
                  [] r = 2 /\ den = 3 ->
                        IF up THEN FxMulCeil(c, c) ELSE FxMulFloor(c, c)
    IN  IF q >= 0 THEN Doubled(root, q) ELSE Halved(root, 0 - q, up)

\* the sum of exponentials a log-domain number stands for: sum of 2^(b/den)
RECURSIVE SumPow2(_, _, _)
SumPow2(B, den, up) ==
    IF B = {} THEN <<>>
    ELSE LET b == CHOOSE e \in B : TRUE
         IN  BigAdd(Pow2(b, den, up), SumPow2(B \ {b}, den, up))

\* e^t for 0 <= t <= 20 by its series  1 + t + t^2/2 + ... + t^40/40! ; the
\* terms beyond the 40th at most halve each time, so they sum to less than
\* the 40th, which the upper rounding adds once more
RECURSIVE ExpSeries(_, _, _, _, _)
ExpSeries(t, n, term, sum, up) ==
    IF n > 40 THEN IF up THEN BigAdd(sum, term) ELSE sum
    ELSE LET next == IF up THEN BigDivCeil(FxMulCeil(term, t), n)
                     ELSE BigDivFloor(FxMulFloor(term, t), n)
             more == BigAdd(sum, next)
         IN  IF Len(next) <= Len(more)
             THEN ExpSeries(t, n + 1, next, more, up) ELSE <<>>

Exp(t, up) == ExpSeries(t, 1, FxOne, FxOne, up)

\* ln(sum of 2^(b/den)) >= v and <= v, for a decimal v = [neg, mag]; each is
\* asserted from the rounding that makes it harder
LogAtLeast(B, den, v) ==
    IF v.neg
    THEN BigLeq(FxOne, FxMulFloor(SumPow2(B, den, FALSE), Exp(v.mag, FALSE)))
    ELSE BigLeq(Exp(v.mag, TRUE), SumPow2(B, den, FALSE))

LogAtMost(B, den, v) ==
    IF v.neg
    THEN BigLeq(FxMulCeil(SumPow2(B, den, TRUE), Exp(v.mag, TRUE)), FxOne)
    ELSE BigLeq(SumPow2(B, den, TRUE), Exp(v.mag, FALSE))

\* a - b for a >= b
RECURSIVE BigSubFrom(_, _, _, _)
BigSubFrom(a, b, i, borrow) ==
    IF i > Len(a) THEN <<>>
    ELSE LET d == a[i] - Digit(b, i) - borrow
         IN  IF d < 0 THEN <<d + 10000>> \o BigSubFrom(a, b, i + 1, 1)
             ELSE <<d>> \o BigSubFrom(a, b, i + 1, 0)

BigSub(a, b) == Trim(BigSubFrom(a, b, 1, 0))

\* |ln(sum of 2^(b/den)) - v| <= tol
LogWithin(B, den, v, tol) ==
    LET below == IF v.neg THEN [neg |-> TRUE, mag |-> BigAdd(v.mag, tol)]
                 ELSE [neg |-> FALSE, mag |-> BigSub(v.mag, tol)]
        above == IF v.neg THEN [neg |-> TRUE, mag |-> BigSub(v.mag, tol)]
                 ELSE [neg |-> FALSE, mag |-> BigAdd(v.mag, tol)]
    IN  LogAtLeast(B, den, below) /\ LogAtMost(B, den, above)

\* -2.536128834 and 1e-6 in units of 1e-12
BiologySampleValue == [neg |-> TRUE, mag |-> <<4000, 2883, 5361, 2>>]
Millionth == <<0, 100>>

\* C16: Biology's objective at C = 5 with every component of nu equal to
\* ln 2 evaluates to -2.536128834 within 1e-6.
C16_BiologySampleValue ==
    (nb = "Biology" /\ levels = Biology_levels) =>
        /\ CubeRootCertified
        /\ \A i \in Shown({"objective_sample"}) :
            /\ out[i].of = [k \in 1 .. Biology_levels |-> 1]
            /\ out[i].value = objective(nb, asarray(out[i].of), levels)
            /\ LogWithin(out[i].value, Den(nb), BiologySampleValue, Millionth)

\* the sample cell has run at five levels; its value is the log of
\* 2^(-25/3) + 2^(-23/3) + 2^(-21/3) + 2^(-19/3) + 2^(-17/3) + 2^(-15/3)
C16_Witness ==
    /\ nb = "Biology"
    /\ levels = Biology_levels
    /\ \E i \in Shown({"objective_sample"}) :
        out[i].value = {0 - 25, 0 - 23, 0 - 21, 0 - 19, 0 - 17, 0 - 15}

\* C18: the objective and aggregate functions exponentiate no logit
\* directly: every sum of exponentials is the log-sum-exp reduction, whose
\* exponentiated terms are exp(logit_i - max), each at most 1 (one of them
\* exactly 1); the simple-sum aggregates exponentiate nothing.
ThroughLogSumExp(logits, value) ==
    LET most == Max({logits[i] : i \in 1 .. Len(logits)})
    IN  /\ Len(ev.exponentiated) = Len(logits)
        /\ \A i \in 1 .. Len(logits) :
            /\ ev.exponentiated[i] = logits[i] - most
            /\ ev.exponentiated[i] <= 0
        /\ \E i \in 1 .. Len(logits) : ev.exponentiated[i] = 0
        /\ value = {b + most : b \in SumExp({}, ev.exponentiated, Den(nb))}

C18_NoDirectExponentiation ==
    /\ ev.value # {} => ThroughLogSumExp(ev.logits, ev.value)
    /\ (ev.agg # {} /\ IsWest(nb)) =>
           ThroughLogSumExp(ev.agg_logits, ev.agg)
    /\ (ev.agg # {} /\ ~IsWest(nb)) => ev.exponentiated = <<>>

\* an objective evaluated where a logit is positive and another negative, so
\* that exp of the logit itself would exceed 1
C18_Witness ==
    /\ ev.value # {}
    /\ \E i \in 1 .. Len(ev.logits) : ev.logits[i] > 0
    /\ \E i \in 1 .. Len(ev.logits) : ev.logits[i] < 0
    /\ \A i \in 1 .. Len(ev.exponentiated) : ev.exponentiated[i] <= 0

\* C19 as stated: for every input the Logistics notebook passes to
\* get_log_consumption, its sample input included, logit k is one half of
\* the sum of the log-ratios at levels k..C-1, for each k in 0..C, and the
\* value is the log of the sum of their exponentials.
HalfTailSums(v) == [j \in 1 .. Len(v) + 1 |-> SumOver(v, j, Len(v))]

C19_HalfTailSumLogits ==
    nb = "Logistics" =>
        \A i \in Shown({"objective_sample"}) :
            /\ objective_logits(nb, log_nu, levels) = HalfTailSums(out[i].of)
            /\ out[i].value = logsumexp(HalfTailSums(out[i].of), Den(nb))

\* 2.079441541680 = ln 8, the recorded output of the sample cell
LogisticsSampleValue == [neg |-> FALSE, mag |-> <<1680, 4154, 794, 2>>]

\* the sample cell at LEVELS = 4 on the 1 x 4 array: the logits are
\* (2 ln 2, 0, 0, 0, 0) and the value ln 8, not the ln(7 + 3 sqrt 2) of
\* the half tail sums (2, 3/2, 1, 1/2, 0) ln 2
C19_Witness ==
    /\ nb = "Logistics"
    /\ levels = Logistics_LEVELS
    /\ log_nu.shape = <<1, Logistics_LEVELS>>
    /\ \E i \in Shown({"objective_sample"}) :
        /\ out[i].of = <<1, 1, 1, 1>>
        /\ objective_logits(nb, log_nu, levels) = <<4, 0, 0, 0, 0>>
        /\ HalfTailSums(out[i].of) = <<4, 3, 2, 1, 0>>
        /\ out[i].value = Real(6)
        /\ LogWithin(out[i].value, Den(nb), LogisticsSampleValue, Millionth)
        /\ out[i].value # logsumexp(HalfTailSums(out[i].of), Den(nb))

\* C20 as stated: in the Logistics notebook, among all vectors with every
\* component >= 0 and the component sum equal to the target, the vector
\* with all components equal attains an objective no greater than that of
\* any other, in particular of the head vector (target, 0, ..., 0).
Feasible(c, total) ==
    {w \in EvalVectors("Logistics", c) :
        /\ \A i \in 1 .. c : w[i] >= 0
        /\ SumOver(w, 1, c) = total}

head_only(total, c) == [i \in 1 .. c |-> IF i = 1 THEN total ELSE 0]

IsUniform(v) == \A i \in 1 .. Len(v) : v[i] = v[1] /\ v[i] >= 0

C20_UniformIsMinimal ==
    (nb = "Logistics" /\ ev.value # {} /\ IsUniform(arg)) =>
        \A w \in Feasible(levels, SumOver(arg, 1, levels)) :
            Leq(ev.value, objective(nb, asarray(w), levels), Den(nb))

\* the objective evaluated at a uniform vector of two or more positive
\* components, while the head vector of the same sum, also feasible, has a
\* strictly smaller objective
C20_Witness ==
    /\ nb = "Logistics"
    /\ ev.value # {}
    /\ levels >= 2
    /\ IsUniform(arg)
    /\ arg[1] > 0
    /\ LET w == head_only(SumOver(arg, 1, levels), levels)
       IN  /\ w \in Feasible(levels, SumOver(arg, 1, levels))
           /\ Less(objective(nb, asarray(w), levels), ev.value, Den(nb))

\* C21: in the West notebooks the aggregate mirrors the objective on the
\* same suffix sums: for every k in 0..C the aggregate's logit k is (1/3)
\* of the sum over k..C-1 and the objective's logit k is -(2/3) of it, so
\* objective logit k = -2 * aggregate logit k, and both are 0 at k = C.
C21_WestMirror ==
    IsWest(nb) =>
        LET suffix == [j \in 1 .. levels + 1 |-> SumOver(arg, j, levels)]
            obj == logits_west(asarray(arg), levels)
            vol == volume_logits_west(asarray(arg), levels)
        IN  /\ ev.logits # <<>> =>
                /\ Len(ev.logits) = levels + 1
                /\ \A j \in 1 .. levels + 1 :
                    /\ ev.logits[j] = (0 - 2) * suffix[j]
                    /\ ev.logits[j] = (0 - 2) * vol[j]
                /\ ev.logits[levels + 1] = 0
            /\ ev.agg_logits # <<>> =>
                /\ Len(ev.agg_logits) = levels + 1
                /\ \A j \in 1 .. levels + 1 :
                    /\ ev.agg_logits[j] = suffix[j]
                    /\ obj[j] = (0 - 2) * ev.agg_logits[j]
                /\ ev.agg_logits[levels + 1] = 0

\* West's get_log_volume evaluated at a vector whose suffix sums differ
\* from its head sums
C21_Witness ==
    /\ IsWest(nb)
    /\ ev.agg_logits # <<>>
    /\ levels >= 2
    /\ arg[1] # arg[levels]
    /\ ev.agg_logits[1] # 0
    /\ logits_west(asarray(arg), levels)[1] = (0 - 2) * ev.agg_logits[1]

\* C22 as stated: in the West notebooks the hand-written candidate (all
\* components 0 but the last) satisfies every bound and the equality
\* constraint, is evaluated by the same objective and aggregate functions as
\* the solver's output, and its objective is strictly lower than the
\* objective at the point the solver returned.
C22_CandidateComparable ==
    IsWest(nb) =>
        \A i \in Shown({"test_extreme"}) :
            /\ \A k \in 1 .. levels - 1 : out[i].of[k] = 0
            /\ InBounds(out[i].of, bounds)
            /\ Satisfies(nb, out[i].of, constraints, levels, target)
            /\ out[i].value[1] = objective(nb, asarray(out[i].of), levels)
            /\ out[i].value[2] = aggregate(nb, asarray(out[i].of), levels)
            /\ \A j \in Shown({"check"}) :
                /\ out[j].value[1] = objective(nb, asarray(out[j].of), levels)
                /\ out[j].value[2] = aggregate(nb, asarray(out[j].of), levels)
            /\ Less(out[i].value[1], result[1].fun, Den(nb))

\* the candidate cell of the notebook with the target 3e+1 has run after a
\* successful solve: the candidate's volume is above the target the
\* solver's answer meets
C22_Witness ==
    /\ nb = "WestDiag"
    /\ result # <<>>
    /\ result[1].success
    /\ \E i \in Shown({"test_extreme"}) :
        /\ InBounds(out[i].of, bounds)
        /\ Less(target, out[i].value[2], Den(nb))
        /\ ~Satisfies(nb, out[i].of, constraints, levels, target)
        /\ aggregate(nb, asarray(result[1].x), levels) = target

\* C23: in Biology the k = C term of the objective is the product of the
\* nu_i^(-1): logit C is minus the simple-sum aggregate for every nu, and
\* both are unchanged by every permutation of the components (the whole
\* objective is not: C23_Witness).
Permuted(v, p) == [i \in 1 .. Len(v) |-> v[p[i]]]

C23_LastTermSymmetric ==
    (nb = "Biology" /\ ev.logits # <<>>) =>
        /\ Real(0 - ev.logits[levels + 1])
               = aggregate(nb, asarray(arg), levels)
        /\ \A p \in Reorderings(levels) :
            LET w == asarray(Permuted(arg, p))
            IN  /\ objective_logits(nb, w, levels)[levels + 1]
                       = ev.logits[levels + 1]
                /\ aggregate(nb, w, levels)
                       = aggregate(nb, asarray(arg), levels)

\* Biology's objective evaluated at a vector of distinct components, whose
\* last logit and aggregate are nonzero and whose objective changes when
\* the components are reordered
C23_Witness ==
    /\ nb = "Biology"
    /\ ev.logits # <<>>
    /\ levels >= 2
    /\ ev.logits[levels + 1] # 0
    /\ \E p \in Reorderings(levels) :
        /\ Permuted(arg, p) # arg
        /\ objective(nb, asarray(Permuted(arg, p)), levels) # ev.value

\* C24: the random start is within bounds at run start: every component
\* lies in [3, 5], hence at or above its lower bound 0 and at or below the
\* upper bound 6 where one is declared, for every draw and every notebook.
C24_StartWithinBounds ==
    initial_values # <<>> =>
        /\ initial_values \in initial_values_of(levels)
        /\ \A i \in 1 .. levels :
            /\ UniformLow <= initial_values[i]
            /\ initial_values[i] <= UniformHigh
            /\ bounds[i].lo = <<0>>
            /\ bounds[i].lo[1] <= initial_values[i]
            /\ bounds[i].hi # <<>> =>
                /\ bounds[i].hi = <<UpperBound>>
                /\ initial_values[i] <= bounds[i].hi[1]
        /\ \A j \in Shown({"minimize"}) : out[j].of = initial_values

\* Biology's optimizer called from a start whose last draw is the largest
\* possible, under the declared upper bound of that component
C24_Witness ==
    /\ nb = "Biology"
    /\ Executed("minimize")
    /\ initial_values # <<>>
    /\ initial_values[levels] = UniformHigh
    /\ initial_values[1] = UniformLow
    /\ bounds[levels].hi = <<UpperBound>>

\* C25: in Biology, for every nu with all components >= 0 the logits are
\* non-decreasing in k, so logit C is the largest; hence at every point
\* within the bounds and on the equality constraint the objective is at
\* least minus the target. The grid is gone through once, in the state the
\* optimizer returns to.
Negated(r) == {0 - b : b \in r}

C25_BiologyLowerBound ==
    (nb = "Biology" /\ Executed("minimize")) =>
        /\ pc = CellIndex("minimize") + 1 => \A v \in XVectors(nb, levels) :
            LET logits == objective_logits(nb, asarray(v), levels)
            IN  /\ (\A i \in 1 .. levels : v[i] >= 0) =>
                    /\ \A k \in 1 .. levels : logits[k] <= logits[k + 1]
                    /\ logits[levels + 1] = Max(Range(logits))
                /\ (/\ InBounds(v, bounds)
                    /\ Satisfies(nb, v, constraints, levels, target)) =>
                    /\ Real(logits[levels + 1]) = Negated(target)
                    /\ Leq(Negated(target),
                           objective(nb, asarray(v), levels), Den(nb))
        /\ result[1].success =>
               Leq(Negated(target), result[1].fun, Den(nb))

\* a successful Biology run on two levels whose answer has unequal
\* components, with an objective strictly above minus the target
C25_Witness ==
    /\ nb = "Biology"
    /\ Executed("minimize")
    /\ levels = 2
    /\ result[1].success
    /\ result[1].x[1] > result[1].x[2]
    /\ Less(Negated(target), result[1].fun, Den(nb))

\* C26: in Logistics, for every nu with all components >= 0 the logits are
\* non-increasing in k and logit 0 is one half of the population aggregate;
\* hence at every point within the bounds and on the equality constraint
\* the largest logit is target / 2 and the objective is at least target / 2.
\* The grid is gone through once, in the state the optimizer returns to.
\* (A sum of exponentials with a term 2^(m/den) or above is at least that.)
AtLeastReal(B, m) == B # {} /\ Max(B) >= m

C26_LogisticsLowerBound ==
    (nb = "Logistics" /\ Executed("minimize")) =>
        /\ pc = CellIndex("minimize") + 1 => \A v \in XVectors(nb, levels) :
            LET logits == objective_logits(nb, asarray(v), levels)
            IN  /\ (\A i \in 1 .. levels : v[i] >= 0) =>
                    /\ \A k \in 1 .. levels : logits[k] >= logits[k + 1]
                    /\ logits[1] = Max(Range(logits))
                    /\ Real(2 * logits[1])
                           = aggregate(nb, asarray(v), levels)
                /\ (/\ InBounds(v, bounds)
                    /\ Satisfies(nb, v, constraints, levels, target)) =>
                    /\ Real(2 * Max(Range(logits))) = target
                    /\ AtLeastReal(objective(nb, asarray(v), levels),
                                   logits[1])
        /\ result[1].success =>
            /\ target = Real(Den(nb) * TargetPerLevel(nb) * levels)
            /\ AtLeastReal(result[1].fun, TargetPerLevel(nb) * levels)

\* a successful Logistics run on two levels whose answer is the head vector
\* (target, 0): largest logit target / 2, objective above it
C26_Witness ==
    /\ nb = "Logistics"
    /\ Executed("minimize")
    /\ levels = 2
    /\ result[1].success
    /\ result[1].x = <<2 * TargetPerLevel(nb), 0>>
    /\ Max(result[1].fun) = 2 * TargetPerLevel(nb)
    /\ result[1].fun # Real(2 * TargetPerLevel(nb))

\* C27 as stated: every generated (target, context) pair is a centre word
\* and one of its neighbours: if the target is the word at corpus position
\* p, the context is the word at a position q with 1 <= |p - q| <=
\* NEIGHBOURS, never p itself and never farther away.
Distance(p, q) == IF p >= q THEN p - q ELSE q - p

C27_PairsAreNeighbours ==
    \A k \in 1 .. Len(targets) :
        /\ targets[k] = text8[pair_at[k][1] + 1]
        /\ contexts[k] = text8[pair_at[k][2] + 1]
        /\ 1 <= Distance(pair_at[k][1], pair_at[k][2])
        /\ Distance(pair_at[k][1], pair_at[k][2]) <= NEIGHBOURS

\* the pairs of a corpus of six words: a target paired with the word at its
\* own position, one paired with a word more than NEIGHBOURS positions before
\* it, and a context word that none of the target's neighbours is
C27_Witness ==
    /\ "targets" \in defined
    /\ Len(text8) = 6
    /\ Len(targets) = 4 * NEIGHBOURS
    /\ \E k \in 1 .. Len(targets) : pair_at[k][1] = pair_at[k][2]
    /\ \E k \in 1 .. Len(targets) :
        pair_at[k][2] < pair_at[k][1] - NEIGHBOURS
    /\ \E k \in 1 .. Len(targets) :
        \A q \in 0 .. Len(text8) - 1 :
            (1 <= Distance(pair_at[k][1], q)
                /\ Distance(pair_at[k][1], q) <= NEIGHBOURS)
            => text8[q + 1] # contexts[k]


\* the pairs of words both in the vocabulary, by their place in targets
KeptPairs ==
    {k \in 1 .. Len(targets) :
        targets[k] \in DOMAIN vocab /\ contexts[k] \in DOMAIN vocab}

\* the i-th kept pair in the original order
NthKept(i) ==
    CHOOSE k \in KeptPairs : Cardinality({m \in KeptPairs : m < k}) = i - 1

\* C29: once the pairs are converted to ids, target_ids and context_ids have
\* the same length, which is the number of pairs with both words in the
\* vocabulary; entry i of both comes from the i-th such pair in the original
\* order; and every id is the vocabulary index of its word, in
\* 0 .. VOCAB_SIZE - 1.
C29_IdsFromKeptPairs ==
    "target_ids" \in defined =>
        /\ Len(target_ids) = Len(context_ids)
        /\ Len(target_ids) = Cardinality(KeptPairs)
        /\ \A i \in 1 .. Len(target_ids) :
            /\ target_ids[i] = vocab[targets[NthKept(i)]]
            /\ context_ids[i] = vocab[contexts[NthKept(i)]]
            /\ target_ids[i] \in 0 .. vocab_size - 1
            /\ context_ids[i] \in 0 .. vocab_size - 1
            /\ id_to_word[target_ids[i]] = targets[NthKept(i)]
            /\ id_to_word[context_ids[i]] = contexts[NthKept(i)]

\* the ids of a corpus of three distinct words and a vocabulary of two: some
\* pair is dropped for its target only, some for its context only, and the
\* pairs kept carry both ids
C29_Witness ==
    /\ "target_ids" \in defined
    /\ vocab_size = 2
    /\ \E k \in 1 .. Len(targets) :
        targets[k] \notin DOMAIN vocab /\ contexts[k] \in DOMAIN vocab
    /\ \E k \in 1 .. Len(targets) :
        targets[k] \in DOMAIN vocab /\ contexts[k] \notin DOMAIN vocab
    /\ \E i \in 1 .. Len(target_ids) : target_ids[i] # context_ids[i]
    /\ \E i \in 1 .. Len(target_ids) : target_ids[i] = context_ids[i]
    /\ \E i \in 1 .. Len(target_ids) : NthKept(i) > i


\* C28: whenever the fantasy energy is no less than the real energy for every
\* pair of a batch, the loss returned by Word2Vec.loss is non-negative.
C28_LossNonNegative ==
    (/\ loss_value # <<>>
     /\ \A b \in 1 .. Len(arg[1][1]) :
            energy(W, arg[2])[b] >= energy(W, arg[1])[b])
    => loss_value[1].num >= 0

\* a batch of two pairs, the fantasy energy above the real energy in one and
\* equal to it in the other, and a negative loss
C28_Witness ==
    /\ loss_value # <<>>
    /\ Len(arg[1][1]) = 2
    /\ \A b \in 1 .. 2 : energy(W, arg[2])[b] >= energy(W, arg[1])[b]
    /\ \E b \in 1 .. 2 : energy(W, arg[2])[b] > energy(W, arg[1])[b]
    /\ \E b \in 1 .. 2 : energy(W, arg[2])[b] = energy(W, arg[1])[b]
    /\ loss_value[1].num < 0


\* the place of an operation in the record of a train_step call, 0 if absent
PlaceOf(op, log) ==
    IF \E i \in 1 .. Len(log) : log[i] = op
    THEN CHOOSE i \in 1 .. Len(log) : log[i] = op
    ELSE 0

\* C30: the step counter returned by get_train_step starts at 0; each call of
\* train_step increases it by exactly 1, after the gradient has been applied;
\* so it always equals the number of calls made, and it never decreases.
C30_StepCountsCalls ==
    /\ []("step" \in defined => step = train_calls)
    /\ [][/\ ("step" \notin defined /\ "step" \in defined') => step' = 0
          /\ "step" \in defined => step' >= step
          /\ train_calls' # train_calls =>
                /\ train_calls' = train_calls + 1
                /\ step' = step + 1
                /\ PlaceOf("apply_gradients", events') > 0
                /\ PlaceOf("apply_gradients", events')
                        < PlaceOf("assign_add", events')
          /\ ("step" \in defined /\ train_calls' = train_calls)
                => step' = step]_vars

\* the counter after the last of MaxSteps calls, each of which changed W or
\* left it alone
C30_Witness ==
    /\ "step" \in defined
    /\ train_calls = MaxSteps
    /\ step = MaxSteps
    /\ MaxSteps >= 2
    /\ PlaceOf("assign_add", events) > 0
    /\ loss_value # <<>>

=============================================================================
